---- MODULE Spec2Model ----
(***************************************************************************)
(* MindMate backend: the safety triage and response orchestration          *)
(* pipeline (backend/main.py, nlp.py, llm_client.py, safety.py), and the   *)
(* frontend's API client (frontend/utils/api_client.py).                   *)
(*                                                                         *)
(* Scores, magnitudes and confidences are fixed-point integers in          *)
(* hundredths (0.1 is 10, -0.7 is -70).  A text is one of a catalogue of   *)
(* concrete strings; what the regexes and the substring tests of the code  *)
(* find in it is tabulated in PatternHits and Substrings.                  *)
(***************************************************************************)
EXTENDS Integers, Sequences, FiniteSets, TLC

VARIABLES
    env,                \* the process environment the services are built from
    sentiment_analyzer, \* main.py:30  [google_client, hf_pipeline]
    llm_client,         \* main.py:31  [openai_client, gemini_client, anthropic_client]
    nlpCall,            \* the last call of a SentimentAnalyzer method and its outcome
    llmCall,            \* the last LLMClient.generate_response call and its outcome
    crisisCall,         \* the last CrisisDetector.detect_crisis call and its outcome
    safetyCall,         \* the last validate_message_safety call and its result
    conversations,      \* main.py:50  conversation id -> reference to a list object
    heap,               \* the list objects: reference -> sequence of entries
    pc,                 \* per request slot: where the chat coroutine stands
    req,                \* per request slot: the locals of the chat coroutine
    clock,              \* the latest reading of datetime.now() (0: none yet)
    started,            \* number of chat requests started
    appended,           \* per conversation id: every entry ever appended, in order
    http,               \* the answer to the latest read or clear of a conversation
    api_client,         \* frontend/utils/api_client.py: the MindMateAPIClient object
    now,                \* what time.time() returns in the frontend process, in seconds
    checking,           \* per session: where its thread is inside health_check
    healthCall          \* the last health_check / validate_connection call that returned

\* The state of the frontend process.
frontend == <<api_client, now, checking, healthCall>>

vars == <<env, sentiment_analyzer, llm_client, nlpCall, llmCall, crisisCall, safetyCall,
          conversations, heap, pc, req, clock, started, appended, http, api_client, now, checking,
          healthCall>>

(***************************************************************************)
(* Small helpers                                                           *)
(***************************************************************************)
Abs(x) == IF x < 0 THEN -x ELSE x
Min(a, b) == IF a < b THEN a ELSE b
Max(a, b) == IF a > b THEN a ELSE b

\* Python's None where the other values are dicts
NoValue == [none |-> TRUE]

\* Python's s[-n:] on a list
LastN(s, n) == IF Len(s) <= n THEN s ELSE SubSeq(s, Len(s) - n + 1, Len(s))

IsSuffix(s, t) == /\ Len(s) <= Len(t)
                  /\ s = SubSeq(t, Len(t) - Len(s) + 1, Len(t))

Range(s) == {s[i] : i \in DOMAIN s}

\* dict.get(key, default) on a record
Get(d, key, default) == IF key \in DOMAIN d THEN d[key] ELSE default

(***************************************************************************)
(* The text catalogue                                                      *)
(***************************************************************************)
Texts == {
    "I want to kill myself",
    "I'm feeling great today!",
    "Can you help me with anxiety?",
    "I hate this terrible awful day",
    "",
    "The pain is too much, I can't take it anymore",
    "I can't go on",
    "I love this wonderful day!",
    "good but bad",
    "I want to DIE of laughter, good one" }

\* Further messages for the crisis detector and the lexicon on their own.
MoreTexts == {
    "Anymore I CAN'T finish this painting",
    "The pain is bad and I can't sleep",
    "This is my FINAL GOODBYE",
    "Life feels pointless and meaningless",
    "No one CARES, I am so sad and alone but I love my dog",
    "I feel sad, lonely and a bit happy",
    "I feel great, happy and a bit sad",
    "I found a razor",
    "Bad Bad bad good" }

\* Python's unit * times on a str.
RECURSIVE Repeat(_, _)
Repeat(unit, times) ==
    IF times = 0 THEN ""
    ELSE LET half == Repeat(unit, times \div 2)
         IN  IF times % 2 = 0 THEN half \o half ELSE (half \o half) \o unit

\* Messages for validate_message_safety: around the length limit, with and
\* without a crisis, with and without a match of the inappropriate patterns.
SafetyTexts == {
    Repeat("x", 2000),
    Repeat("x", 2001),
    Repeat("x", 2500),
    Repeat("I want to kill myself ", 100),
    Repeat("I hate spam ", 200),
    Repeat("I hate that I want to kill myself ", 70),
    "Click here, buy now: no hate",
    "BUY  NOW",
    "spammer",
    "I hate that I want to kill myself" }

\* Indices (1..8) of the compiled crisis regexes that pattern.search(text) matches.
PatternHits(text) ==
    CASE text = "I want to kill myself" -> {1}
      [] text = "I want to DIE of laughter, good one" -> {1}
      [] text = "I found a razor" -> {4}
      [] text = "I hate that I want to kill myself" -> {1}
      [] Len(text) > 2000 /\ text = Repeat("I want to kill myself ", 100) -> {1}
      [] Len(text) > 2000 /\ text = Repeat("I hate that I want to kill myself ", 70) -> {1}
      [] OTHER -> {}

\* The needles (lexicon words, high-risk phrases, combination tokens) for which
\* `needle in text.lower()` is true.
Substrings(text) ==
    CASE text = "I want to kill myself" -> {"kill"}
      [] text = "I'm feeling great today!" -> {"great"}
      [] text = "I hate this terrible awful day" -> {"terrible", "hate", "awful"}
      [] text = "The pain is too much, I can't take it anymore" -> {"pain", "can't", "anymore"}
      [] text = "I can't go on" -> {"can't go on", "can't"}
      [] text = "I love this wonderful day!" -> {"love", "wonderful"}
      [] text = "good but bad" -> {"good", "bad"}
      [] text = "I want to DIE of laughter, good one" -> {"good", "die"}
      [] text = "Anymore I CAN'T finish this painting" -> {"pain", "can't", "anymore"}
      [] text = "The pain is bad and I can't sleep" -> {"bad", "pain", "can't"}
      [] text = "This is my FINAL GOODBYE" -> {"final goodbye", "good"}
      [] text = "Life feels pointless and meaningless" -> {"pointless", "life", "meaningless"}
      [] text = "No one CARES, I am so sad and alone but I love my dog"
            -> {"love", "sad", "no one", "cares", "alone"}
      [] text = "I feel sad, lonely and a bit happy" -> {"happy", "sad", "lonely"}
      [] text = "I feel great, happy and a bit sad" -> {"great", "happy", "sad"}
      [] text = "Bad Bad bad good" -> {"good", "bad"}
      [] text = "Click here, buy now: no hate" -> {"hate"}
      [] text = "I hate that I want to kill myself" -> {"hate", "kill"}
      [] Len(text) > 2000 /\ text = Repeat("I want to kill myself ", 100) -> {"kill"}
      [] Len(text) > 2000 /\ text = Repeat("I hate spam ", 200) -> {"hate"}
      [] Len(text) > 2000 /\ text = Repeat("I hate that I want to kill myself ", 70)
            -> {"hate", "kill"}
      [] OTHER -> {}

\* Indices (1..2) of the inappropriate-content regexes that
\* re.search(pattern, text, re.IGNORECASE) matches.
InappropriateHits(text) ==
    CASE text = "I hate this terrible awful day" -> {2}
      [] text = "Click here, buy now: no hate" -> {1, 2}
      [] text = "BUY  NOW" -> {1}
      [] text = "I hate that I want to kill myself" -> {2}
      [] Len(text) > 2000 /\ text = Repeat("I hate spam ", 200) -> {1, 2}
      [] Len(text) > 2000 /\ text = Repeat("I hate that I want to kill myself ", 70) -> {2}
      [] OTHER -> {}

(***************************************************************************)
(* safety.py                                                               *)
(***************************************************************************)
NumPatterns == 8

high_risk_phrases ==
    { "can't go on", "nothing to live for", "everyone would be better off without me",
      "final goodbye", "last time", "saying goodbye", "won't be here tomorrow" }

crisis_combinations ==
    { {"pain", "can't", "anymore"},
      {"tired", "fighting", "give up"},
      {"no one", "cares", "alone"},
      {"pointless", "life", "meaningless"} }

contextual_crisis_check(message) ==
    \E combination \in crisis_combinations :
        \A word \in combination : word \in Substrings(message)

\* An exception leaving a call: the value every try/except of the code tests for.
Raise == [raised |-> TRUE]

\* The argument of a call as a Python value: a str, or a value of another type.
PyStr(s) == [pytype |-> "str", value |-> s]
Malformed == { [pytype |-> "NoneType"], [pytype |-> "int"],
               [pytype |-> "bytes"], [pytype |-> "list"] }

\* The three stages without the contextual one.
crisis_stages_no_context(message) ==
    IF \E i \in 1..NumPatterns : i \in PatternHits(message) THEN TRUE
    ELSE IF \E phrase \in high_risk_phrases : phrase \in Substrings(message) THEN TRUE
    ELSE FALSE

\* safety.py:40-58, the stages on a str
crisis_stages(message) ==
    IF \E i \in 1..NumPatterns : i \in PatternHits(message) THEN TRUE
    ELSE IF \E phrase \in high_risk_phrases : phrase \in Substrings(message) THEN TRUE
    ELSE IF contextual_crisis_check(message) THEN TRUE
    ELSE FALSE

\* safety.py:40-58, the body of the try: pattern.search(message) raises
\* TypeError when message is not a str.
detect_crisis_body(arg) ==
    IF arg.pytype # "str" THEN Raise
    ELSE [raised |-> FALSE, value |-> crisis_stages(arg.value)]

\* detect_crisis without its try/except.
detect_crisis_uncaught(arg) == detect_crisis_body(arg)

\* safety.py:37-62 on any argument: what leaves the call.
detect_crisis_call(arg) ==
    LET r == detect_crisis_body(arg)
    IN  IF r = Raise THEN [raised |-> FALSE, value |-> FALSE] ELSE r

detect_crisis(message) == detect_crisis_call(PyStr(message)).value

\* The loop over the inappropriate patterns without its break.
inappropriate_concerns_no_break(message) ==
    LET first  == IF 1 \in InappropriateHits(message)
                  THEN <<"Potentially inappropriate content">> ELSE <<>>
        second == IF 2 \in InappropriateHits(message)
                  THEN <<"Potentially inappropriate content">> ELSE <<>>
    IN  first \o second

\* for pattern in inappropriate_patterns: the first match appends one concern
\* and leaves the loop.
inappropriate_concerns(message) ==
    IF 1 \in InappropriateHits(message) THEN <<"Potentially inappropriate content">>
    ELSE IF 2 \in InappropriateHits(message) THEN <<"Potentially inappropriate content">>
    ELSE <<>>

validate_message_safety(message) ==
    LET crisis == detect_crisis(message)
        result == [ safe            |-> TRUE,
                    crisis_detected |-> FALSE,
                    risk_level      |-> "low",
                    concerns        |-> <<>> ]
        r1 == IF crisis
              THEN [ safe            |-> FALSE,
                     crisis_detected |-> TRUE,
                     risk_level      |-> "high",
                     concerns        |-> Append(result.concerns, "Crisis indicators detected") ]
              ELSE result
        r2 == IF Len(message) > 2000
              THEN [r1 EXCEPT !.concerns = Append(@, "Message too long")]
              ELSE r1
    IN  [r2 EXCEPT !.concerns = @ \o inappropriate_concerns(message)]

\* get_crisis_response(): the fixed text, named by its first sentence.
get_crisis_response ==
    "I'm very concerned about what you've shared with me. Your safety is the most important thing right now. [...]"

\* The telephone numbers that occur in a response text.
NumbersIn(text) ==
    IF text = get_crisis_response
    THEN {"911", "988", "741741", "1-800-799-7233"}
    ELSE {}

(***************************************************************************)
(* nlp.py                                                                  *)
(***************************************************************************)
\* What the process environment offers when the services are constructed.
Envs == [ google_key : BOOLEAN,   \* GOOGLE_CLOUD_API_KEY is set
          google_ok  : BOOLEAN,   \* the Google client can be constructed
          hf_ok      : BOOLEAN,   \* the HuggingFace pipeline can be constructed
          openai     : BOOLEAN,   \* OPENAI_API_KEY is set and the client constructs
          gemini     : BOOLEAN,   \* GEMINI_API_KEY is set and the client constructs
          anthropic  : BOOLEAN ]  \* ANTHROPIC_API_KEY is set and the client constructs

initialize_services(e) ==
    LET google == e.google_key /\ e.google_ok
    IN  [ google_client |-> google,
          hf_pipeline   |-> (~google) /\ e.hf_ok ]

\* The pipeline scores the float table covers, in hundredths.
HfGrid == 0..130

\* The pairs <<p, n>> of HfGrid with p > n for which Python's float p/100 - n/100 is
\* greater than the float (p - n)/100 (0.55 - 0.45 is 0.10000000000000003).
FloatAbove ==
    ({4} \X {3})
    \cup ({5} \X {2, 3, 4})
    \cup ({7} \X {1, 3, 4, 5, 6})
    \cup ({8} \X {6})
    \cup ({10} \X {1, 4, 6, 8, 9})
    \cup ({11} \X {9})
    \cup ({13} \X {1, 9, 11, 12})
    \cup ({14} \X {2, 3, 5, 6, 8, 9, 10, 11, 12, 13})
    \cup ({16} \X {12, 15})
    \cup ({17} \X {2, 5, 6, 8, 9, 11, 12, 13, 15, 16})
    \cup ({19} \X {15, 18})
    \cup ({20} \X {2, 5, 8, 9, 11, 12, 15, 16, 18, 19})
    \cup ({22} \X {18, 21})
    \cup ({23} \X {2, 8, 11, 12, 15, 18, 19, 21, 22})
    \cup ({25} \X {21, 24})
    \cup ({26} \X {2, 5, 11, 15, 18, 21, 22, 24, 25})
    \cup ({27} \X {3, 5, 6, 9, 11, 12, 15, 16, 18, 19, 21, 22, 23, 24, 25, 26})
    \cup ({28} \X {4, 5, 6, 7, 9, 10, 11, 12, 13, 15, 16, 17, 18, 19, 20, 21, 22, 23, 24, 25, 26, 27})
    \cup ({30} \X {29})
    \cup ({31} \X {29, 30})
    \cup ({32} \X {3, 11, 21, 24, 29, 30, 31})
    \cup ({33} \X {3, 4, 9, 11, 12, 15, 18, 21, 22, 24, 25, 29, 30, 31, 32})
    \cup ({34} \X {3, 4, 5, 10, 11, 12, 13, 15, 16, 18, 19, 21, 22, 23, 24, 25, 26, 29, 30, 31, 32, 33})
    \cup ({36} \X {35})
    \cup ({37} \X {29, 35, 36})
    \cup ({38} \X {9, 29, 30, 35, 36, 37})
    \cup ({39} \X {4, 9, 10, 15, 18, 21, 24, 29, 30, 31, 35, 36, 37, 38})
    \cup ({40} \X {4, 5, 9, 10, 11, 16, 18, 19, 21, 22, 24, 25, 29, 30, 31, 32, 35, 36, 37, 38, 39})
    \cup ({42} \X {41})
    \cup ({43} \X {35, 41, 42})
    \cup ({44} \X {3, 15, 29, 35, 36, 41, 42, 43})
    \cup ({45} \X {3, 4, 15, 16, 21, 24, 29, 30, 35, 36, 37, 41, 42, 43, 44})
    \cup ({46} \X {3, 4, 5, 11, 15, 16, 17, 22, 24, 25, 29, 30, 31, 35, 36, 37, 38, 41, 42, 43, 44, 45})
    \cup ({48} \X {47})
    \cup ({49} \X {41, 47, 48})
    \cup ({50} \X {9, 21, 29, 35, 41, 42, 47, 48, 49})
    \cup ({51} \X {4, 9, 10, 21, 22, 29, 30, 35, 36, 41, 42, 43, 47, 48, 49, 50})
    \cup ({52} \X {4, 5, 9, 10, 11, 21, 22, 23, 29, 30, 31, 35, 36, 37, 41, 42, 43, 44, 47, 48, 49, 50, 51})
    \cup ({53} \X {4, 5, 6, 9, 10, 11, 12, 18, 21, 22, 23, 24, 29, 30, 31, 32, 35, 36, 37, 38, 41, 42, 43,
              44, 45, 47, 48, 49, 50, 51, 52})
    \cup ({54} \X {5, 6, 7, 9, 10, 11, 12, 13, 18, 19, 21, 22, 23, 24, 25, 29, 30, 31, 32, 33, 35, 36, 37,
              38, 39, 41, 42, 43, 44, 45, 46, 47, 48, 49, 50, 51, 52, 53})
    \cup ({55} \X {6, 7, 8, 9, 10, 11, 12, 13, 14, 18, 19, 20, 21, 22, 23, 24, 25, 26, 29, 30, 31, 32, 33,
              34, 35, 36, 37, 38, 39, 40, 41, 42, 43, 44, 45, 46, 47, 48, 49, 50, 51, 52, 53, 54})
    \cup ({56} \X {7, 8, 9, 10, 11, 12, 13, 14, 15, 18, 19, 20, 21, 22, 23, 24, 25, 26, 27, 29, 30, 31, 32,
              33, 34, 35, 36, 37, 38, 39, 40, 41, 42, 43, 44, 45, 46, 47, 48, 49, 50, 51, 52, 53, 54,
              55})
    \cup ({58} \X {57})
    \cup ({59} \X {57, 58})
    \cup ({60} \X {57, 58, 59})
    \cup ({61} \X {57, 58, 59, 60})
    \cup ({62} \X {21, 41, 47, 57, 58, 59, 60, 61})
    \cup ({63} \X {6, 21, 22, 41, 42, 47, 48, 57, 58, 59, 60, 61, 62})
    \cup ({64} \X {6, 7, 21, 22, 23, 29, 35, 41, 42, 43, 47, 48, 49, 57, 58, 59, 60, 61, 62, 63})
    \cup ({65} \X {6, 7, 8, 18, 21, 22, 23, 24, 29, 30, 35, 36, 41, 42, 43, 44, 47, 48, 49, 50, 57, 58, 59,
              60, 61, 62, 63, 64})
    \cup ({66} \X {6, 7, 8, 9, 18, 19, 21, 22, 23, 24, 25, 29, 30, 31, 35, 36, 37, 41, 42, 43, 44, 45, 47,
              48, 49, 50, 51, 57, 58, 59, 60, 61, 62, 63, 64, 65})
    \cup ({67} \X {6, 7, 8, 9, 10, 18, 19, 20, 21, 22, 23, 24, 25, 26, 29, 30, 31, 32, 35, 36, 37, 38, 41,
              42, 43, 44, 45, 46, 47, 48, 49, 50, 51, 52, 57, 58, 59, 60, 61, 62, 63, 64, 65, 66})
    \cup ({68} \X {6, 7, 8, 9, 10, 11, 19, 20, 21, 22, 23, 24, 25, 26, 27, 29, 30, 31, 32, 33, 35, 36, 37,
              38, 39, 41, 42, 43, 44, 45, 46, 47, 48, 49, 50, 51, 52, 53, 57, 58, 59, 60, 61, 62, 63,
              64, 65, 66, 67})
    \cup ({70} \X {69})
    \cup ({71} \X {69, 70})
    \cup ({72} \X {57, 69, 70, 71})
    \cup ({73} \X {57, 58, 69, 70, 71, 72})
    \cup ({74} \X {57, 58, 59, 69, 70, 71, 72, 73})
    \cup ({75} \X {18, 57, 58, 59, 60, 69, 70, 71, 72, 73, 74})
    \cup ({76} \X {18, 19, 29, 35, 41, 47, 57, 58, 59, 60, 61, 69, 70, 71, 72, 73, 74, 75})
    \cup ({77} \X {8, 18, 19, 20, 29, 30, 35, 36, 41, 42, 47, 48, 57, 58, 59, 60, 61, 62, 69, 70, 71, 72,
              73, 74, 75, 76})
    \cup ({78} \X {8, 9, 18, 19, 20, 21, 29, 30, 31, 35, 36, 37, 41, 42, 43, 47, 48, 49, 57, 58, 59, 60,
              61, 62, 63, 69, 70, 71, 72, 73, 74, 75, 76, 77})
    \cup ({79} \X {8, 9, 10, 18, 19, 20, 21, 22, 30, 31, 32, 35, 36, 37, 38, 41, 42, 43, 44, 47, 48, 49,
              50, 57, 58, 59, 60, 61, 62, 63, 64, 69, 70, 71, 72, 73, 74, 75, 76, 77, 78})
    \cup ({80} \X {8, 9, 10, 11, 18, 19, 20, 21, 22, 23, 31, 32, 33, 35, 36, 37, 38, 39, 41, 42, 43, 44,
              45, 47, 48, 49, 50, 51, 57, 58, 59, 60, 61, 62, 63, 64, 65, 69, 70, 71, 72, 73, 74, 75,
              76, 77, 78, 79})
    \cup ({81} \X {8, 9, 10, 11, 12, 18, 19, 20, 21, 22, 23, 24, 32, 33, 34, 35, 36, 37, 38, 39, 40, 41,
              42, 43, 44, 45, 46, 47, 48, 49, 50, 51, 52, 57, 58, 59, 60, 61, 62, 63, 64, 65, 66, 69,
              70, 71, 72, 73, 74, 75, 76, 77, 78, 79, 80})
    \cup ({83} \X {82})
    \cup ({84} \X {69, 82, 83})
    \cup ({85} \X {69, 70, 82, 83, 84})
    \cup ({86} \X {29, 57, 69, 70, 71, 82, 83, 84, 85})
    \cup ({87} \X {29, 30, 57, 58, 69, 70, 71, 72, 82, 83, 84, 85, 86})
    \cup ({88} \X {6, 29, 30, 31, 41, 47, 57, 58, 59, 69, 70, 71, 72, 73, 82, 83, 84, 85, 86, 87})
    \cup ({89} \X {6, 7, 29, 30, 31, 32, 41, 42, 47, 48, 57, 58, 59, 60, 69, 70, 71, 72, 73, 74, 82, 83,
              84, 85, 86, 87, 88})
    \cup ({90} \X {6, 7, 8, 21, 29, 30, 31, 32, 33, 41, 42, 43, 47, 48, 49, 57, 58, 59, 60, 61, 69, 70, 71,
              72, 73, 74, 75, 82, 83, 84, 85, 86, 87, 88, 89})
    \cup ({91} \X {6, 7, 8, 9, 21, 22, 29, 30, 31, 32, 33, 34, 42, 43, 44, 47, 48, 49, 50, 57, 58, 59, 60,
              61, 62, 69, 70, 71, 72, 73, 74, 75, 76, 82, 83, 84, 85, 86, 87, 88, 89, 90})
    \cup ({92} \X {6, 7, 8, 9, 10, 21, 22, 23, 29, 30, 31, 32, 33, 34, 35, 43, 44, 45, 47, 48, 49, 50, 51,
              57, 58, 59, 60, 61, 62, 63, 69, 70, 71, 72, 73, 74, 75, 76, 77, 82, 83, 84, 85, 86, 87,
              88, 89, 90, 91})
    \cup ({93} \X {6, 7, 8, 9, 10, 11, 21, 22, 23, 24, 29, 30, 31, 32, 33, 34, 35, 36, 44, 45, 46, 47, 48,
              49, 50, 51, 52, 57, 58, 59, 60, 61, 62, 63, 64, 69, 70, 71, 72, 73, 74, 75, 76, 77, 78,
              82, 83, 84, 85, 86, 87, 88, 89, 90, 91, 92})
    \cup ({95} \X {94})
    \cup ({96} \X {94, 95})
    \cup ({97} \X {82, 94, 95, 96})
    \cup ({98} \X {41, 57, 69, 82, 83, 94, 95, 96, 97})
    \cup ({99} \X {41, 42, 57, 58, 69, 70, 82, 83, 84, 94, 95, 96, 97, 98})
    \cup ({100} \X {18, 41, 42, 43, 57, 58, 59, 69, 70, 71, 82, 83, 84, 85, 94, 95, 96, 97, 98, 99})
    \cup ({101} \X {18, 19, 41, 42, 43, 44, 57, 58, 59, 60, 69, 70, 71, 72, 82, 83, 84, 85, 86, 94, 95, 96,
              97, 98, 99, 100})
    \cup ({102} \X {8, 18, 19, 20, 41, 42, 43, 44, 45, 57, 58, 59, 60, 61, 69, 70, 71, 72, 73, 82, 83, 84,
              85, 86, 87, 94, 95, 96, 97, 98, 99, 100, 101})
    \cup ({103} \X {8, 9, 18, 19, 20, 21, 41, 42, 43, 44, 45, 46, 57, 58, 59, 60, 61, 62, 69, 70, 71, 72,
              73, 74, 82, 83, 84, 85, 86, 87, 88, 94, 95, 96, 97, 98, 99, 100, 101, 102})
    \cup ({104} \X {8, 9, 10, 18, 19, 20, 21, 22, 35, 41, 42, 43, 44, 45, 46, 47, 57, 58, 59, 60, 61, 62,
              63, 69, 70, 71, 72, 73, 74, 75, 82, 83, 84, 85, 86, 87, 88, 89, 94, 95, 96, 97, 98, 99,
              100, 101, 102, 103})
    \cup ({105} \X {8, 9, 10, 11, 18, 19, 20, 21, 22, 23, 35, 36, 41, 42, 43, 44, 45, 46, 47, 48, 57, 58,
              59, 60, 61, 62, 63, 64, 69, 70, 71, 72, 73, 74, 75, 76, 82, 83, 84, 85, 86, 87, 88, 89,
              90, 94, 95, 96, 97, 98, 99, 100, 101, 102, 103, 104})
    \cup ({106} \X {8, 9, 10, 11, 12, 18, 19, 20, 21, 22, 23, 24, 35, 36, 37, 41, 42, 43, 44, 45, 46, 47,
              48, 49, 57, 58, 59, 60, 61, 62, 63, 64, 65, 69, 70, 71, 72, 73, 74, 75, 76, 77, 82, 83,
              84, 85, 86, 87, 88, 89, 90, 91, 94, 95, 96, 97, 98, 99, 100, 101, 102, 103, 104, 105})
    \cup ({107} \X {8, 9, 10, 11, 12, 13, 18, 19, 20, 21, 22, 23, 24, 25, 35, 36, 37, 38, 41, 42, 43, 44,
              45, 46, 47, 48, 49, 50, 57, 58, 59, 60, 61, 62, 63, 64, 65, 66, 69, 70, 71, 72, 73, 74,
              75, 76, 77, 78, 82, 83, 84, 85, 86, 87, 88, 89, 90, 91, 92, 94, 95, 96, 97, 98, 99, 100,
              101, 102, 103, 104, 105, 106})
    \cup ({108} \X {9, 10, 11, 12, 13, 14, 18, 19, 20, 21, 22, 23, 24, 25, 26, 35, 36, 37, 38, 39, 41, 42,
              43, 44, 45, 46, 47, 48, 49, 50, 51, 57, 58, 59, 60, 61, 62, 63, 64, 65, 66, 67, 69, 70,
              71, 72, 73, 74, 75, 76, 77, 78, 79, 82, 83, 84, 85, 86, 87, 88, 89, 90, 91, 92, 93, 94,
              95, 96, 97, 98, 99, 100, 101, 102, 103, 104, 105, 106, 107})
    \cup ({109} \X {10, 11, 12, 13, 14, 15, 18, 19, 20, 21, 22, 23, 24, 25, 26, 27, 35, 36, 37, 38, 39, 40,
              41, 42, 43, 44, 45, 46, 47, 48, 49, 50, 51, 52, 57, 58, 59, 60, 61, 62, 63, 64, 65, 66,
              67, 68, 69, 70, 71, 72, 73, 74, 75, 76, 77, 78, 79, 80, 82, 83, 84, 85, 86, 87, 88, 89,
              90, 91, 92, 93, 94, 95, 96, 97, 98, 99, 100, 101, 102, 103, 104, 105, 106, 107, 108})
    \cup ({110} \X {11, 12, 13, 14, 15, 16, 18, 19, 20, 21, 22, 23, 24, 25, 26, 27, 28, 35, 36, 37, 38, 39,
              40, 41, 42, 43, 44, 45, 46, 47, 48, 49, 50, 51, 52, 53, 57, 58, 59, 60, 61, 62, 63, 64,
              65, 66, 67, 68, 69, 70, 71, 72, 73, 74, 75, 76, 77, 78, 79, 80, 81, 82, 83, 84, 85, 86,
              87, 88, 89, 90, 91, 92, 93, 94, 95, 96, 97, 98, 99, 100, 101, 102, 103, 104, 105, 106,
              107, 108, 109})
    \cup ({111} \X {12, 13, 14, 15, 16, 17, 18, 19, 20, 21, 22, 23, 24, 25, 26, 27, 28, 29, 35, 36, 37, 38,
              39, 40, 41, 42, 43, 44, 45, 46, 47, 48, 49, 50, 51, 52, 53, 54, 57, 58, 59, 60, 61, 62,
              63, 64, 65, 66, 67, 68, 69, 70, 71, 72, 73, 74, 75, 76, 77, 78, 79, 80, 81, 82, 83, 84,
              85, 86, 87, 88, 89, 90, 91, 92, 93, 94, 95, 96, 97, 98, 99, 100, 101, 102, 103, 104,
              105, 106, 107, 108, 109, 110})
    \cup ({112} \X {13, 14, 15, 16, 17, 18, 19, 20, 21, 22, 23, 24, 25, 26, 27, 28, 29, 30, 35, 36, 37, 38,
              39, 40, 41, 42, 43, 44, 45, 46, 47, 48, 49, 50, 51, 52, 53, 54, 55, 57, 58, 59, 60, 61,
              62, 63, 64, 65, 66, 67, 68, 69, 70, 71, 72, 73, 74, 75, 76, 77, 78, 79, 80, 81, 82, 83,
              84, 85, 86, 87, 88, 89, 90, 91, 92, 93, 94, 95, 96, 97, 98, 99, 100, 101, 102, 103, 104,
              105, 106, 107, 108, 109, 110, 111})
    \cup ({114} \X {113})
    \cup ({115} \X {113, 114})
    \cup ({116} \X {113, 114, 115})
    \cup ({117} \X {113, 114, 115, 116})
    \cup ({118} \X {113, 114, 115, 116, 117})
    \cup ({119} \X {113, 114, 115, 116, 117, 118})
    \cup ({120} \X {113, 114, 115, 116, 117, 118, 119})
    \cup ({121} \X {113, 114, 115, 116, 117, 118, 119, 120})
    \cup ({122} \X {113, 114, 115, 116, 117, 118, 119, 120, 121})
    \cup ({123} \X {41, 82, 94, 113, 114, 115, 116, 117, 118, 119, 120, 121, 122})
    \cup ({124} \X {41, 42, 82, 83, 94, 95, 113, 114, 115, 116, 117, 118, 119, 120, 121, 122, 123})
    \cup ({125} \X {41, 42, 43, 82, 83, 84, 94, 95, 96, 113, 114, 115, 116, 117, 118, 119, 120, 121, 122,
              123, 124})
    \cup ({126} \X {12, 41, 42, 43, 44, 57, 69, 82, 83, 84, 85, 94, 95, 96, 97, 113, 114, 115, 116, 117,
              118, 119, 120, 121, 122, 123, 124, 125})
    \cup ({127} \X {13, 41, 42, 43, 44, 45, 57, 58, 69, 70, 82, 83, 84, 85, 86, 94, 95, 96, 97, 98, 113,
              114, 115, 116, 117, 118, 119, 120, 121, 122, 123, 124, 125, 126})
    \cup ({128} \X {12, 14, 15, 41, 42, 43, 44, 45, 46, 57, 58, 59, 69, 70, 71, 82, 83, 84, 85, 86, 87, 94,
              95, 96, 97, 98, 99, 113, 114, 115, 116, 117, 118, 119, 120, 121, 122, 123, 124, 125,
              126, 127})
    \cup ({129} \X {13, 15, 16, 35, 41, 42, 43, 44, 45, 46, 47, 57, 58, 59, 60, 69, 70, 71, 72, 82, 83, 84,
              85, 86, 87, 88, 94, 95, 96, 97, 98, 99, 100, 113, 114, 115, 116, 117, 118, 119, 120,
              121, 122, 123, 124, 125, 126, 127, 128})
    \cup ({130} \X {12, 14, 15, 16, 17, 35, 36, 41, 42, 43, 44, 45, 46, 47, 48, 57, 58, 59, 60, 61, 69, 70,
              71, 72, 73, 82, 83, 84, 85, 86, 87, 88, 89, 94, 95, 96, 97, 98, 99, 100, 101, 113, 114,
              115, 116, 117, 118, 119, 120, 121, 122, 123, 124, 125, 126, 127, 128, 129})

\* The pairs <<p, n>> of HfGrid with p > n for which the float p/100 - n/100 is less
\* than the float (p - n)/100 (0.47 - 0.17 is 0.29999999999999993).
FloatBelow ==
    ({3} \X {1, 2})
    \cup ({6} \X {1, 2, 4, 5})
    \cup ({8} \X {7})
    \cup ({9} \X {2, 4, 5, 7, 8})
    \cup ({11} \X {7, 10})
    \cup ({12} \X {2, 4, 5, 7, 8, 10, 11})
    \cup ({15} \X {1, 4, 5, 7, 8, 10, 11, 13, 14})
    \cup ({16} \X {14})
    \cup ({18} \X {1, 4, 7, 8, 10, 11, 13, 14, 16, 17})
    \cup ({19} \X {14, 17})
    \cup ({21} \X {1, 4, 5, 7, 10, 11, 13, 14, 16, 17, 19, 20})
    \cup ({22} \X {5, 14, 17, 20})
    \cup ({24} \X {1, 4, 7, 8, 10, 13, 14, 16, 17, 19, 20, 22, 23})
    \cup ({25} \X {8, 14, 17, 20, 23})
    \cup ({29} \X {1, 2, 4, 6, 7, 8, 9, 10, 12, 13, 14, 15, 16, 17, 18, 19, 20, 21, 22, 23, 24, 25, 26, 27,
              28})
    \cup ({30} \X {2, 7, 8, 10, 13, 14, 16, 17, 19, 20, 22, 23, 25, 26, 27, 28})
    \cup ({31} \X {8, 14, 17, 20, 23, 26, 27, 28})
    \cup ({32} \X {27, 28})
    \cup ({33} \X {28})
    \cup ({35} \X {1, 2, 3, 7, 8, 10, 12, 13, 14, 15, 16, 17, 18, 19, 20, 21, 22, 23, 24, 25, 26, 27, 28,
              30, 31, 32, 33, 34})
    \cup ({36} \X {2, 3, 8, 13, 14, 16, 17, 19, 20, 22, 23, 25, 26, 27, 28, 31, 32, 33, 34})
    \cup ({37} \X {3, 14, 17, 20, 23, 26, 27, 28, 32, 33, 34})
    \cup ({38} \X {27, 28, 33, 34})
    \cup ({39} \X {28, 34})
    \cup ({41} \X {1, 2, 7, 8, 9, 10, 13, 14, 16, 17, 18, 19, 20, 21, 22, 23, 24, 25, 26, 27, 28, 30, 31,
              32, 33, 34, 36, 37, 38, 39, 40})
    \cup ({42} \X {2, 8, 9, 10, 14, 17, 19, 20, 22, 23, 25, 26, 27, 28, 31, 32, 33, 34, 37, 38, 39, 40})
    \cup ({43} \X {9, 10, 20, 23, 26, 27, 28, 32, 33, 34, 38, 39, 40})
    \cup ({44} \X {10, 27, 28, 33, 34, 39, 40})
    \cup ({45} \X {28, 34, 40})
    \cup ({47} \X {1, 2, 3, 7, 8, 13, 14, 15, 16, 17, 19, 20, 22, 23, 24, 25, 26, 27, 28, 30, 31, 32, 33,
              34, 36, 37, 38, 39, 40, 42, 43, 44, 45, 46})
    \cup ({48} \X {2, 3, 8, 14, 15, 16, 17, 20, 23, 25, 26, 27, 28, 31, 32, 33, 34, 37, 38, 39, 40, 43, 44,
              45, 46})
    \cup ({49} \X {3, 15, 16, 17, 26, 27, 28, 32, 33, 34, 38, 39, 40, 44, 45, 46})
    \cup ({50} \X {16, 17, 27, 28, 33, 34, 39, 40, 45, 46})
    \cup ({51} \X {17, 28, 34, 40, 46})
    \cup ({57} \X {1, 2, 3, 4, 5, 7, 8, 11, 12, 13, 14, 15, 16, 17, 18, 19, 20, 23, 24, 25, 26, 27, 28, 29,
              30, 31, 32, 33, 34, 35, 36, 37, 38, 39, 40, 41, 42, 43, 44, 45, 46, 47, 48, 49, 50, 51,
              52, 53, 54, 55, 56})
    \cup ({58} \X {2, 3, 4, 5, 8, 12, 13, 14, 15, 16, 17, 18, 19, 20, 24, 25, 26, 27, 28, 30, 31, 32, 33,
              34, 35, 36, 37, 38, 39, 40, 41, 42, 43, 44, 45, 46, 47, 48, 49, 50, 51, 52, 53, 54, 55,
              56})
    \cup ({59} \X {3, 4, 5, 13, 14, 15, 16, 17, 19, 20, 25, 26, 27, 28, 31, 32, 33, 34, 36, 37, 38, 39, 40,
              42, 43, 44, 45, 46, 48, 49, 50, 51, 52, 53, 54, 55, 56})
    \cup ({60} \X {4, 5, 14, 15, 16, 17, 20, 26, 27, 28, 32, 33, 34, 37, 38, 39, 40, 43, 44, 45, 46, 49,
              50, 51, 52, 53, 54, 55, 56})
    \cup ({61} \X {5, 15, 16, 17, 27, 28, 33, 34, 38, 39, 40, 44, 45, 46, 50, 51, 52, 53, 54, 55, 56})
    \cup ({62} \X {16, 17, 28, 34, 39, 40, 45, 46, 51, 52, 53, 54, 55, 56})
    \cup ({63} \X {17, 40, 46, 52, 53, 54, 55, 56})
    \cup ({64} \X {53, 54, 55, 56})
    \cup ({65} \X {54, 55, 56})
    \cup ({66} \X {55, 56})
    \cup ({67} \X {56})
    \cup ({69} \X {1, 2, 3, 4, 5, 6, 7, 13, 14, 15, 16, 17, 19, 20, 23, 24, 25, 26, 27, 28, 29, 30, 31, 32,
              33, 34, 35, 36, 37, 38, 39, 40, 41, 42, 43, 44, 45, 46, 47, 48, 49, 50, 51, 52, 53, 54,
              55, 56, 58, 59, 60, 61, 62, 63, 64, 65, 66, 67, 68})
    \cup ({70} \X {2, 3, 4, 5, 6, 7, 14, 15, 16, 17, 20, 24, 25, 26, 27, 28, 30, 31, 32, 33, 34, 36, 37,
              38, 39, 40, 42, 43, 44, 45, 46, 47, 48, 49, 50, 51, 52, 53, 54, 55, 56, 59, 60, 61, 62,
              63, 64, 65, 66, 67, 68})
    \cup ({71} \X {3, 4, 5, 6, 7, 15, 16, 17, 25, 26, 27, 28, 31, 32, 33, 34, 37, 38, 39, 40, 43, 44, 45,
              46, 48, 49, 50, 51, 52, 53, 54, 55, 56, 60, 61, 62, 63, 64, 65, 66, 67, 68})
    \cup ({72} \X {4, 5, 6, 7, 16, 17, 26, 27, 28, 32, 33, 34, 38, 39, 40, 44, 45, 46, 49, 50, 51, 52, 53,
              54, 55, 56, 61, 62, 63, 64, 65, 66, 67, 68})
    \cup ({73} \X {5, 6, 7, 17, 27, 28, 33, 34, 39, 40, 45, 46, 50, 51, 52, 53, 54, 55, 56, 62, 63, 64, 65,
              66, 67, 68})
    \cup ({74} \X {6, 7, 28, 34, 40, 46, 51, 52, 53, 54, 55, 56, 63, 64, 65, 66, 67, 68})
    \cup ({75} \X {7, 52, 53, 54, 55, 56, 64, 65, 66, 67, 68})
    \cup ({76} \X {53, 54, 55, 56, 65, 66, 67, 68})
    \cup ({77} \X {54, 55, 56, 66, 67, 68})
    \cup ({78} \X {55, 56, 67, 68})
    \cup ({79} \X {56, 68})
    \cup ({82} \X {1, 2, 3, 4, 5, 14, 15, 16, 17, 18, 19, 20, 26, 27, 28, 32, 33, 34, 36, 37, 38, 39, 40,
              42, 43, 44, 45, 46, 48, 49, 50, 51, 52, 53, 54, 55, 56, 59, 60, 61, 62, 63, 64, 65, 66,
              67, 68, 71, 72, 73, 74, 75, 76, 77, 78, 79, 80, 81})
    \cup ({83} \X {2, 3, 4, 5, 15, 16, 17, 18, 19, 20, 27, 28, 33, 34, 37, 38, 39, 40, 43, 44, 45, 46, 49,
              50, 51, 52, 53, 54, 55, 56, 60, 61, 62, 63, 64, 65, 66, 67, 68, 72, 73, 74, 75, 76, 77,
              78, 79, 80, 81})
    \cup ({84} \X {3, 4, 5, 16, 17, 18, 19, 20, 28, 34, 38, 39, 40, 44, 45, 46, 50, 51, 52, 53, 54, 55, 56,
              61, 62, 63, 64, 65, 66, 67, 68, 73, 74, 75, 76, 77, 78, 79, 80, 81})
    \cup ({85} \X {4, 5, 17, 18, 19, 20, 39, 40, 45, 46, 51, 52, 53, 54, 55, 56, 62, 63, 64, 65, 66, 67,
              68, 74, 75, 76, 77, 78, 79, 80, 81})
    \cup ({86} \X {5, 18, 19, 20, 40, 46, 52, 53, 54, 55, 56, 63, 64, 65, 66, 67, 68, 75, 76, 77, 78, 79,
              80, 81})
    \cup ({87} \X {19, 20, 53, 54, 55, 56, 64, 65, 66, 67, 68, 76, 77, 78, 79, 80, 81})
    \cup ({88} \X {20, 54, 55, 56, 65, 66, 67, 68, 77, 78, 79, 80, 81})
    \cup ({89} \X {55, 56, 66, 67, 68, 78, 79, 80, 81})
    \cup ({90} \X {56, 67, 68, 79, 80, 81})
    \cup ({91} \X {68, 80, 81})
    \cup ({92} \X {81})
    \cup ({94} \X {1, 2, 3, 4, 5, 6, 7, 13, 14, 15, 16, 17, 26, 27, 28, 29, 30, 31, 32, 33, 34, 38, 39, 40,
              44, 45, 46, 48, 49, 50, 51, 52, 53, 54, 55, 56, 60, 61, 62, 63, 64, 65, 66, 67, 68, 71,
              72, 73, 74, 75, 76, 77, 78, 79, 80, 81, 83, 84, 85, 86, 87, 88, 89, 90, 91, 92, 93})
    \cup ({95} \X {2, 3, 4, 5, 6, 7, 14, 15, 16, 17, 27, 28, 29, 30, 31, 32, 33, 34, 39, 40, 45, 46, 49,
              50, 51, 52, 53, 54, 55, 56, 61, 62, 63, 64, 65, 66, 67, 68, 72, 73, 74, 75, 76, 77, 78,
              79, 80, 81, 84, 85, 86, 87, 88, 89, 90, 91, 92, 93})
    \cup ({96} \X {3, 4, 5, 6, 7, 15, 16, 17, 28, 29, 30, 31, 32, 33, 34, 40, 46, 50, 51, 52, 53, 54, 55,
              56, 62, 63, 64, 65, 66, 67, 68, 73, 74, 75, 76, 77, 78, 79, 80, 81, 85, 86, 87, 88, 89,
              90, 91, 92, 93})
    \cup ({97} \X {4, 5, 6, 7, 16, 17, 29, 30, 31, 32, 33, 34, 51, 52, 53, 54, 55, 56, 63, 64, 65, 66, 67,
              68, 74, 75, 76, 77, 78, 79, 80, 81, 86, 87, 88, 89, 90, 91, 92, 93})
    \cup ({98} \X {5, 6, 7, 17, 30, 31, 32, 33, 34, 52, 53, 54, 55, 56, 64, 65, 66, 67, 68, 75, 76, 77, 78,
              79, 80, 81, 87, 88, 89, 90, 91, 92, 93})
    \cup ({99} \X {6, 7, 31, 32, 33, 34, 53, 54, 55, 56, 65, 66, 67, 68, 76, 77, 78, 79, 80, 81, 88, 89,
              90, 91, 92, 93})
    \cup ({100} \X {7, 32, 33, 34, 54, 55, 56, 66, 67, 68, 77, 78, 79, 80, 81, 89, 90, 91, 92, 93})
    \cup ({101} \X {33, 34, 55, 56, 67, 68, 78, 79, 80, 81, 90, 91, 92, 93})
    \cup ({102} \X {34, 56, 68, 79, 80, 81, 91, 92, 93})
    \cup ({103} \X {80, 81, 92, 93})
    \cup ({104} \X {81, 93})
    \cup ({113} \X {1, 2, 3, 4, 5, 6, 7, 8, 9, 10, 11, 12, 13, 14, 15, 16, 17, 20, 21, 22, 23, 24, 25, 26,
              27, 28, 29, 30, 31, 32, 33, 34, 35, 36, 37, 38, 39, 40, 45, 46, 47, 48, 49, 50, 51, 52,
              53, 54, 55, 56, 57, 58, 59, 60, 61, 62, 63, 64, 65, 66, 67, 68, 69, 70, 71, 72, 73, 74,
              75, 76, 77, 78, 79, 80, 81, 82, 83, 84, 85, 86, 87, 88, 89, 90, 91, 92, 93, 94, 95, 96,
              97, 98, 99, 100, 101, 102, 103, 104, 105, 106, 107, 108, 109, 110, 111, 112})
    \cup ({114} \X {2, 3, 4, 5, 6, 7, 8, 9, 10, 11, 13, 14, 15, 16, 17, 21, 22, 23, 24, 25, 26, 27, 28, 29,
              30, 31, 32, 33, 34, 35, 36, 37, 38, 39, 40, 46, 47, 48, 49, 50, 51, 52, 53, 54, 55, 56,
              58, 59, 60, 61, 62, 63, 64, 65, 66, 67, 68, 69, 70, 71, 72, 73, 74, 75, 76, 77, 78, 79,
              80, 81, 82, 83, 84, 85, 86, 87, 88, 89, 90, 91, 92, 93, 94, 95, 96, 97, 98, 99, 100,
              101, 102, 103, 104, 105, 106, 107, 108, 109, 110, 111, 112})
    \cup ({115} \X {3, 4, 5, 6, 7, 8, 9, 10, 11, 12, 14, 15, 16, 17, 22, 23, 24, 25, 26, 27, 28, 29, 30, 31,
              32, 33, 34, 35, 36, 37, 38, 39, 40, 47, 48, 49, 50, 51, 52, 53, 54, 55, 56, 59, 60, 61,
              62, 63, 64, 65, 66, 67, 68, 69, 70, 71, 72, 73, 74, 75, 76, 77, 78, 79, 80, 81, 82, 83,
              84, 85, 86, 87, 88, 89, 90, 91, 92, 93, 94, 95, 96, 97, 98, 99, 100, 101, 102, 103, 104,
              105, 106, 107, 108, 109, 110, 111, 112})
    \cup ({116} \X {4, 5, 6, 7, 8, 9, 10, 11, 13, 16, 17, 23, 24, 25, 26, 27, 28, 29, 30, 31, 32, 33, 34,
              35, 36, 37, 38, 39, 40, 48, 49, 50, 51, 52, 53, 54, 55, 56, 60, 61, 62, 63, 64, 65, 66,
              67, 68, 70, 71, 72, 73, 74, 75, 76, 77, 78, 79, 80, 81, 82, 83, 84, 85, 86, 87, 88, 89,
              90, 91, 92, 93, 94, 95, 96, 97, 98, 99, 100, 101, 102, 103, 104, 105, 106, 107, 108,
              109, 110, 111, 112})
    \cup ({117} \X {5, 6, 7, 8, 9, 10, 11, 12, 14, 17, 24, 25, 26, 27, 28, 29, 30, 31, 32, 33, 34, 36, 37,
              38, 39, 40, 49, 50, 51, 52, 53, 54, 55, 56, 61, 62, 63, 64, 65, 66, 67, 68, 71, 72, 73,
              74, 75, 76, 77, 78, 79, 80, 81, 83, 84, 85, 86, 87, 88, 89, 90, 91, 92, 93, 94, 95, 96,
              97, 98, 99, 100, 101, 102, 103, 104, 105, 106, 107, 108, 109, 110, 111, 112})
    \cup ({118} \X {6, 7, 8, 9, 10, 11, 13, 25, 26, 27, 28, 29, 30, 31, 32, 33, 34, 37, 38, 39, 40, 50, 51,
              52, 53, 54, 55, 56, 62, 63, 64, 65, 66, 67, 68, 72, 73, 74, 75, 76, 77, 78, 79, 80, 81,
              84, 85, 86, 87, 88, 89, 90, 91, 92, 93, 95, 96, 97, 98, 99, 100, 101, 102, 103, 104,
              105, 106, 107, 108, 109, 110, 111, 112})
    \cup ({119} \X {7, 8, 9, 10, 11, 12, 14, 26, 27, 28, 29, 30, 31, 32, 33, 34, 38, 39, 40, 51, 52, 53, 54,
              55, 56, 63, 64, 65, 66, 67, 68, 73, 74, 75, 76, 77, 78, 79, 80, 81, 85, 86, 87, 88, 89,
              90, 91, 92, 93, 96, 97, 98, 99, 100, 101, 102, 103, 104, 105, 106, 107, 108, 109, 110,
              111, 112})
    \cup ({120} \X {8, 9, 10, 11, 13, 27, 28, 29, 30, 31, 32, 33, 34, 39, 40, 52, 53, 54, 55, 56, 64, 65,
              66, 67, 68, 74, 75, 76, 77, 78, 79, 80, 81, 86, 87, 88, 89, 90, 91, 92, 93, 97, 98, 99,
              100, 101, 102, 103, 104, 105, 106, 107, 108, 109, 110, 111, 112})
    \cup ({121} \X {9, 10, 11, 12, 14, 28, 29, 30, 31, 32, 33, 34, 40, 53, 54, 55, 56, 65, 66, 67, 68, 75,
              76, 77, 78, 79, 80, 81, 87, 88, 89, 90, 91, 92, 93, 98, 99, 100, 101, 102, 103, 104,
              105, 106, 107, 108, 109, 110, 111, 112})
    \cup ({122} \X {10, 11, 13, 29, 30, 31, 32, 33, 34, 54, 55, 56, 66, 67, 68, 76, 77, 78, 79, 80, 81, 88,
              89, 90, 91, 92, 93, 99, 100, 101, 102, 103, 104, 105, 106, 107, 108, 109, 110, 111, 112})
    \cup ({123} \X {11, 12, 14, 30, 31, 32, 33, 34, 55, 56, 67, 68, 77, 78, 79, 80, 81, 89, 90, 91, 92, 93,
              100, 101, 102, 103, 104, 105, 106, 107, 108, 109, 110, 111, 112})
    \cup ({124} \X {13, 31, 32, 33, 34, 56, 68, 78, 79, 80, 81, 90, 91, 92, 93, 101, 102, 103, 104, 105,
              106, 107, 108, 109, 110, 111, 112})
    \cup ({125} \X {14, 32, 33, 34, 79, 80, 81, 91, 92, 93, 102, 103, 104, 105, 106, 107, 108, 109, 110,
              111, 112})
    \cup ({126} \X {33, 34, 80, 81, 92, 93, 103, 104, 105, 106, 107, 108, 109, 110, 111, 112})
    \cup ({127} \X {34, 81, 93, 104, 105, 106, 107, 108, 109, 110, 111, 112})
    \cup ({128} \X {105, 106, 107, 108, 109, 110, 111, 112})
    \cup ({129} \X {106, 107, 108, 109, 110, 111, 112})
    \cup ({130} \X {107, 108, 109, 110, 111, 112})

\* Where the float p/100 - n/100 lies against the float (p - n)/100: 1 above,
\* -1 below, 0 on it.  float(b) - float(a) is the negation of float(a) - float(b).
float_excess(p, n) ==
    CASE p \in HfGrid /\ n \in HfGrid /\ p > n ->
            IF <<p, n>> \in FloatAbove THEN 1
            ELSE IF <<p, n>> \in FloatBelow THEN -1 ELSE 0
      [] p \in HfGrid /\ n \in HfGrid /\ p < n ->
            IF <<n, p>> \in FloatAbove THEN -1
            ELSE IF <<n, p>> \in FloatBelow THEN 1 ELSE 0
      [] p = n -> 0

\* A float is written as the hundredth nearest to it (score) and the side of
\* that hundredth it lies on (excess).  float > t/100 and float < t/100:
float_above(score, excess, t) == score > t \/ (score = t /\ excess > 0)
float_below(score, excess, t) == score < t \/ (score = t /\ excess < 0)

\* The side of its hundredth the score of a sentiment dict lies on.  Only the
\* HuggingFace step computes its score; there confidence is the greater of the
\* two pipeline scores and score their difference, which gives both back.
score_excess(sentiment) ==
    IF /\ Get(sentiment, "provider", "") = "huggingface"
       /\ {"score", "confidence"} \subseteq DOMAIN sentiment
    THEN LET positive_score == IF sentiment.score >= 0 THEN sentiment.confidence
                               ELSE sentiment.confidence + sentiment.score
             negative_score == positive_score - sentiment.score
         IN  float_excess(positive_score, negative_score)
    ELSE 0

\* The rule with the thresholds included.
score_to_label_inclusive(score, excess) ==
    IF score >= 10 THEN "positive"
    ELSE IF score <= -10 THEN "negative"
    ELSE "neutral"

\* The rule with the negative threshold included.
score_to_label_negative_inclusive(score, excess) ==
    IF float_above(score, excess, 10) THEN "positive"
    ELSE IF score <= -10 THEN "negative"
    ELSE "neutral"

\* _score_to_label on the float (score, excess)
score_to_label(score, excess) ==
    IF float_above(score, excess, 10) THEN "positive"
    ELSE IF float_below(score, excess, -10) THEN "negative"
    ELSE "neutral"

positive_words ==
    { "good", "great", "happy", "joy", "love", "wonderful", "amazing",
      "excellent", "fantastic", "perfect", "awesome", "brilliant" }

negative_words ==
    { "bad", "terrible", "sad", "angry", "hate", "awful", "horrible",
      "depressed", "anxious", "worried", "scared", "lonely", "hopeless",
      "suicide", "kill", "die", "hurt", "pain" }

\* The lexicon with any negative word deciding, whatever the positive ones.
basic_sentiment_any_negative(text) ==
    LET negative_count == Cardinality(negative_words \cap Substrings(text))
        positive_count == Cardinality(positive_words \cap Substrings(text))
        score == IF negative_count > 0 THEN -70
                 ELSE IF positive_count > 0 THEN 70
                 ELSE 0
        label == IF negative_count > 0 THEN "negative"
                 ELSE IF positive_count > 0 THEN "positive"
                 ELSE "neutral"
    IN  [ res   |-> [ provider   |-> "basic",
                      score      |-> score,
                      magnitude  |-> Abs(score),
                      label      |-> label,
                      confidence |-> 60 ],
          tried |-> <<"basic">> ]

basic_sentiment(text) ==
    LET positive_count == Cardinality(positive_words \cap Substrings(text))
        negative_count == Cardinality(negative_words \cap Substrings(text))
        score == IF negative_count > positive_count THEN -70
                 ELSE IF positive_count > negative_count THEN 70
                 ELSE 0
        label == IF negative_count > positive_count THEN "negative"
                 ELSE IF positive_count > negative_count THEN "positive"
                 ELSE "neutral"
    IN  [ res   |-> [ provider   |-> "basic",
                      score      |-> score,
                      magnitude  |-> Abs(score),
                      label      |-> label,
                      confidence |-> 60 ],
          tried |-> <<"basic">> ]

\* What a provider answers to one call: Raise, or its raw payload.
\* Google: document_sentiment.score and .magnitude.
GoogleScores == {-120, -60, -50, -11, -10, 0, 10, 11, 30, 100}
GoogleMagnitudes == {0, 40, 250}
GoogleAnswers == {Raise} \cup [score : GoogleScores, magnitude : GoogleMagnitudes]

\* HuggingFace: results[0], the score of each label the pipeline reports.
HfPairs == { <<90, 10>>, <<10, 90>>, <<50, 50>>, <<56, 44>>, <<46, 54>>, <<20, 80>>,
             <<25, 75>>, <<130, 5>>,
             <<55, 45>>, <<45, 55>>, <<12, 2>>, <<35, 65>>, <<7, 57>> }
HfAnswers == {Raise}
             \cup { [POSITIVE |-> p[1], NEGATIVE |-> p[2]] : p \in HfPairs }
             \cup { [NEGATIVE |-> 30], [POSITIVE |-> 80], [NEUTRAL |-> 100] }

\* self.hf_pipeline(text): calling None raises TypeError.
hf_pipeline_call(analyzer, answer) ==
    IF analyzer.hf_pipeline THEN answer ELSE Raise

analyze_with_huggingface(analyzer, text, hfAnswer) ==
    LET results == hf_pipeline_call(analyzer, hfAnswer)
    IN  IF results = Raise
        THEN LET b == basic_sentiment(text)
             IN  [ res |-> b.res, tried |-> <<"huggingface">> \o b.tried ]
        ELSE LET positive_score == Get(results, "POSITIVE", 50)
                 negative_score == Get(results, "NEGATIVE", 50)
                 score == positive_score - negative_score
                 excess == float_excess(positive_score, negative_score)
                 confidence == Max(positive_score, negative_score)
             IN  [ res   |-> [ provider   |-> "huggingface",
                               score      |-> score,
                               magnitude  |-> confidence,
                               label      |-> score_to_label(score, excess),
                               confidence |-> confidence ],
                   tried |-> <<"huggingface">> ]

\* The Google step with the lexicon scored alongside a successful answer.
analyze_with_google_eager(analyzer, text, googleAnswer, hfAnswer) ==
    IF googleAnswer = Raise
    THEN LET h == analyze_with_huggingface(analyzer, text, hfAnswer)
         IN  [ res |-> h.res, tried |-> <<"google">> \o h.tried ]
    ELSE [ res   |-> [ provider   |-> "google",
                       score      |-> googleAnswer.score,
                       magnitude  |-> googleAnswer.magnitude,
                       label      |-> score_to_label(googleAnswer.score, 0),
                       confidence |-> Min(googleAnswer.magnitude, 100) ],
           tried |-> <<"google">> \o basic_sentiment(text).tried ]

analyze_with_google(analyzer, text, googleAnswer, hfAnswer) ==
    IF googleAnswer = Raise
    THEN LET h == analyze_with_huggingface(analyzer, text, hfAnswer)
         IN  [ res |-> h.res, tried |-> <<"google">> \o h.tried ]
    ELSE [ res   |-> [ provider   |-> "google",
                       score      |-> googleAnswer.score,
                       magnitude  |-> googleAnswer.magnitude,
                       label      |-> score_to_label(googleAnswer.score, 0),
                       confidence |-> Min(googleAnswer.magnitude, 100) ],
           tried |-> <<"google">> ]

\* analyze without its final else: nothing is returned when no provider is set up.
analyze_no_else(analyzer, text, googleAnswer, hfAnswer) ==
    IF analyzer.google_client
    THEN analyze_with_google(analyzer, text, googleAnswer, hfAnswer)
    ELSE IF analyzer.hf_pipeline
    THEN analyze_with_huggingface(analyzer, text, hfAnswer)
    ELSE Raise

analyze(analyzer, text, googleAnswer, hfAnswer) ==
    LET inner ==
            IF analyzer.google_client
            THEN analyze_with_google(analyzer, text, googleAnswer, hfAnswer)
            ELSE IF analyzer.hf_pipeline
            THEN analyze_with_huggingface(analyzer, text, hfAnswer)
            ELSE basic_sentiment(text)
    IN  IF inner = Raise THEN basic_sentiment(text) ELSE inner

(***************************************************************************)
(* llm_client.py                                                           *)
(***************************************************************************)
initialize_clients(e) ==
    [ openai_client    |-> e.openai,
      gemini_client    |-> e.gemini,
      anthropic_client |-> e.anthropic ]

\* What a generation provider answers to one call: Raise, a message whose content
\* is None (no content field), or a message with a raw content string.
RawContents == { "I hear you. Would you like to try a breathing exercise?",
                 "  That sounds really hard.\n",
                 "   " }
ProviderAnswers == {Raise, [role |-> "assistant"]}
                   \cup { [role |-> "assistant", content |-> c] : c \in RawContents }

\* str.strip() on the raw contents
strip(raw) ==
    CASE raw = "  That sounds really hard.\n" -> "That sounds really hard."
      [] raw = "   " -> ""
      [] OTHER -> raw

\* response...content.strip() inside try/except-raise: None.strip() raises too.
provider_text(answer) ==
    IF answer = Raise THEN Raise
    ELSE IF "content" \notin DOMAIN answer THEN Raise
    ELSE [raised |-> FALSE, text |-> strip(answer.content)]

generate_with_openai(context, answers) == provider_text(answers.openai)
generate_with_anthropic(context, answers) == provider_text(answers.anthropic)
generate_with_gemini(context, answers) == provider_text(answers.gemini)

fallback_negative ==
    "I hear that you're going through a difficult time right now. Your feelings are completely valid. Sometimes when we're struggling, it can help to take slow, deep breaths - in for 4 counts, hold for 4, out for 4. Would you like to talk about what's making you feel this way?"
fallback_positive ==
    "I'm glad to hear you're feeling positive! It's wonderful that you're taking time to check in with yourself. Maintaining good mental health habits, like the ones that brought you here, is really important. What's been going well for you lately?"
fallback_neutral ==
    "Thank you for sharing with me. I'm here to listen and support you. Sometimes it helps to just talk through what's on your mind. Taking a moment to breathe deeply can also be grounding. What would be most helpful for you right now?"

\* The fallback answering with the neutral template whatever the label.
fallback_response_always_neutral(sentiment) ==
    LET sentiment_label == Get(sentiment, "label", "neutral")
    IN  fallback_neutral

fallback_response(sentiment) ==
    LET sentiment_label == Get(sentiment, "label", "neutral")
    IN  CASE sentiment_label = "negative" -> fallback_negative
          [] sentiment_label = "positive" -> fallback_positive
          [] OTHER -> fallback_neutral

\* The prompt, as the parts _build_context joins.
build_context(current_message, conversation_history, sentiment) ==
    LET shown == LastN(conversation_history, 4)
    IN  [ history |-> [ i \in DOMAIN shown |->
                          << IF shown[i].role = "user" THEN "User" ELSE "Assistant",
                             shown[i].content >> ],
          message    |-> current_message,
          label      |-> Get(sentiment, "label", "neutral"),
          confidence |-> Get(sentiment, "confidence", 50),
          note       |-> float_below(Get(sentiment, "score", 0), score_excess(sentiment), -30) ]

\* generate_response without its try/except: a provider's exception leaves it.
generate_response_uncaught(client, current_message, conversation_history, sentiment, answers) ==
    IF client.openai_client
    THEN generate_with_openai(<<>>, answers)
    ELSE IF client.anthropic_client
    THEN generate_with_anthropic(<<>>, answers)
    ELSE IF client.gemini_client
    THEN generate_with_gemini(<<>>, answers)
    ELSE [raised |-> FALSE, text |-> fallback_response(sentiment)]

generate_response(client, current_message, conversation_history, sentiment, answers) ==
    LET context == build_context(current_message, conversation_history, sentiment)
        attempt ==
            IF client.openai_client
            THEN [ out |-> generate_with_openai(context, answers), tried |-> <<"openai">> ]
            ELSE IF client.anthropic_client
            THEN [ out |-> generate_with_anthropic(context, answers), tried |-> <<"anthropic">> ]
            ELSE IF client.gemini_client
            THEN [ out |-> generate_with_gemini(context, answers), tried |-> <<"gemini">> ]
            ELSE [ out |-> [raised |-> FALSE, text |-> fallback_response(sentiment)],
                   tried |-> <<"fallback">> ]
    IN  IF attempt.out = Raise
        THEN [ raised  |-> FALSE,
               text    |-> fallback_response(sentiment),
               tried   |-> attempt.tried \o <<"fallback">>,
               context |-> context ]
        ELSE [ raised  |-> FALSE,
               text    |-> attempt.out.text,
               tried   |-> attempt.tried,
               context |-> context ]

(***************************************************************************)
(* The state after construction (main.py:30-50)                            *)
(***************************************************************************)
NoCall == [called |-> FALSE]

(***************************************************************************)
(* frontend/utils/api_client.py                                            *)
(***************************************************************************)
\* self._last_health_check = None: a value `self._last_health_check and ...`
\* takes for false.
NoCheck == 0

\* __init__
MindMateAPIClient == [ _last_health_check |-> NoCheck, _health_status |-> NoValue ]

\* What self.session.get(.../health, timeout=5), raise_for_status() and
\* response.json() do: return the body, or raise one of these exceptions.
HealthOutcomes == {"ok", "ConnectionError", "ConnectTimeout", "ReadTimeout", "HTTPError"}

\* The status dict health_check builds for an outcome that took `took` seconds.
health_status(outcome, took) ==
    CASE outcome = "ok" ->
            [ status |-> "healthy", backend_connected |-> TRUE,
              data |-> [status |-> "healthy"], response_time |-> took ]
      [] outcome \in {"ConnectionError", "ConnectTimeout"} ->
            [ status |-> "connection_error", backend_connected |-> FALSE,
              error |-> "Cannot connect to backend server" ]
      [] outcome = "ReadTimeout" ->
            [ status |-> "timeout", backend_connected |-> FALSE,
              error |-> "Backend server timeout" ]
      [] OTHER ->
            [ status |-> "error", backend_connected |-> FALSE, error |-> outcome ]

\* api_client.py:27: use_cache and self._last_health_check, after which
\* health_check reads the clock.
cache_wanted(self, use_cache) ==
    /\ use_cache
    /\ self._last_health_check # NoCheck

\* api_client.py:28-29: the rest of the test, with t the reading of the clock
\* and self read after it.
cache_fresh(self, t) ==
    /\ t - self._last_health_check < 30
    /\ self._health_status # NoValue

\* get_api_client (api_client.py:216-220) is cached with st.cache_resource:
\* the sessions of the application, each run by its own thread, use one client.
Sessions == {1, 2}

\* A session whose thread is not inside health_check.
NoRead == 0
NoCheckCall == [ at |-> "idle", fn |-> "", use_cache |-> FALSE, outcome |-> "none",
                 read |-> NoRead ]

InitOf(e) ==
    /\ env = e
    /\ sentiment_analyzer = initialize_services(e)
    /\ llm_client = initialize_clients(e)
    /\ nlpCall = NoCall
    /\ llmCall = NoCall
    /\ crisisCall = NoCall
    /\ safetyCall = NoCall
    /\ api_client = MindMateAPIClient
    /\ now = 1
    /\ checking = [s \in Sessions |-> NoCheckCall]
    /\ healthCall = NoCall

(***************************************************************************)
(* SentimentAnalyzer.analyze on its own                                    *)
(***************************************************************************)
Analyze(text, googleAnswer, hfAnswer) ==
    /\ ~nlpCall.called
    /\ nlpCall' = [ called |-> TRUE,
                    text   |-> text,
                    google |-> googleAnswer,
                    hf     |-> hfAnswer,
                    out    |-> analyze(sentiment_analyzer, text, googleAnswer, hfAnswer) ]
    /\ UNCHANGED <<env, frontend, sentiment_analyzer, llm_client, llmCall, crisisCall, safetyCall,
                   conversations, heap, pc, req, clock, started, appended, http>>

(***************************************************************************)
(* main.py: the conversation store and the chat coroutine                  *)
(***************************************************************************)
MaxRequests == 2        \* chat requests started in one run of the concurrent service
MaxSeqRequests == 7     \* chat requests started in one run of the sequential service

Slots == {1, 2}         \* the chat coroutines that can be in flight together
ClientIds == {"a", "b"} \* conversation ids the clients choose
\* The conversation_id of a ChatRequest: None or a str.
PyNone == [pytype |-> "NoneType"]
RequestIds == {PyNone, PyStr("")} \cup {PyStr(c) : c \in ClientIds}

ChatMessages == { "I want to kill myself",
                  "I'm feeling great today!" }

\* The answers the providers give to the requests of a run.
ChatGoogleAnswers == { Raise, [score |-> -60, magnitude |-> 40] }
ChatHfAnswers == { Raise, [POSITIVE |-> 90, NEGATIVE |-> 10] }
ChatProviderAnswers == { Raise,
                         [role |-> "assistant", content |-> "  That sounds really hard.\n"] }

\* The environments the service is started in.
NoProviders == [ google_key |-> FALSE, google_ok |-> FALSE, hf_ok |-> FALSE,
                 openai |-> FALSE, gemini |-> FALSE, anthropic |-> FALSE ]
AllProviders == [ google_key |-> TRUE, google_ok |-> TRUE, hf_ok |-> TRUE,
                  openai |-> TRUE, gemini |-> FALSE, anthropic |-> TRUE ]
Deployments ==
    { NoProviders,
      AllProviders,
      [NoProviders EXCEPT !.hf_ok = TRUE] }

\* f"conv_{timestamp}"
generated_id(timestamp) == "conv_" \o ToString(timestamp)

crisis_resources ==
    << "National Suicide Prevention Lifeline: 988",
       "Crisis Text Line: Text HOME to 741741",
       "Emergency Services: 911",
       "Find local mental health resources at SAMHSA.gov" >>

general_resources ==
    << "National Alliance on Mental Illness (NAMI): nami.org",
       "Mental Health America: mhanational.org",
       "Psychology Today therapist finder" >>

NoRef == 0

\* The locals of a slot without a request.  The local conversation_id of a
\* request is never the empty string (main.py:71).
NoReq == [ conversation_id      |-> "",
           message              |-> "",
           timestamp            |-> 0,
           conversation_history |-> NoRef,
           sentiment            |-> NoValue,
           recent_messages      |-> <<>>,
           gen_calls            |-> 0,
           logged               |-> NoValue,
           response             |-> NoValue ]

\* main.py:33: the database logger exists when ENABLE_LOGGING is "true"
\* (os.getenv gives "" when the variable is not set).
logger_db == Get(env, "enable_logging", FALSE)

\* The severity with the threshold included.
normal_severity_inclusive(sentiment) ==
    IF Get(sentiment, "score", 0) <= -50 THEN "medium" ELSE "low"

\* main.py:142-144
normal_severity(sentiment) ==
    IF float_below(Get(sentiment, "score", 0), score_excess(sentiment), -50)
    THEN "medium" ELSE "low"

\* The arguments of logger_db.log_conversation (main.py:108-114, 141-151);
\* nothing is logged without a logger.
log_conversation(conversation_id, sentiment, crisis_detected, severity) ==
    IF logger_db
    THEN [ conversation_id |-> conversation_id,
           sentiment       |-> sentiment,
           crisis_detected |-> crisis_detected,
           severity        |-> severity ]
    ELSE NoValue

\* main.py:168-170: what the client gets when an exception reaches the except
\* clause of chat.
internal_server_error == [status |-> 500, detail |-> "Internal server error"]

\* A fresh list object: the smallest reference not in use.
NewRef(h) == CHOOSE r \in 1..(Cardinality(DOMAIN h) + 1) : r \notin DOMAIN h

\* List objects nobody refers to any more are gone.
Collect(h, convs, reqs) ==
    LET live == {convs[c] : c \in DOMAIN convs}
                \cup {reqs[p].conversation_history : p \in Slots}
    IN  [r \in (DOMAIN h) \cap live |-> h[r]]

\* The stored window of a conversation id.
Window(cid) == heap[conversations[cid]]

\* The await of a stage suspends the coroutine only when it reaches a provider
\* (run_in_executor, a network call); otherwise the coroutine runs on.
Suspended(p) ==
    \/ pc[p] \in {"idle", "done"}
    \/ pc[p] = "sentiment"
         /\ (sentiment_analyzer.google_client \/ sentiment_analyzer.hf_pipeline)
    \/ pc[p] = "generate"
         /\ (llm_client.openai_client \/ llm_client.anthropic_client
               \/ llm_client.gemini_client)

\* The event loop runs one coroutine at a time: p may take a step when every
\* other coroutine is suspended.
MayRun(p) == \A q \in Slots \ {p} : Suspended(q)
LoopFree == \A q \in Slots : Suspended(q)

\* The append with the trim keeping the first six entries instead of the last six.
append_user_keep_first(convs, h, cid, entry) ==
    LET known == cid \in DOMAIN convs
        ref0  == IF known THEN convs[cid] ELSE NewRef(h)
        list1 == Append(IF known THEN h[ref0] ELSE <<>>, entry)
        h1    == [r \in (DOMAIN h) \cup {ref0} |-> IF r = ref0 THEN list1 ELSE h[r]]
    IN  IF Len(list1) > 6
        THEN LET ref1 == NewRef(h1)
             IN  [ heap |-> [r \in (DOMAIN h1) \cup {ref1} |->
                                IF r = ref1 THEN SubSeq(list1, 1, 6) ELSE h1[r]],
                   conversations |-> [c \in (DOMAIN convs) \cup {cid} |->
                                        IF c = cid THEN ref1 ELSE convs[c]],
                   conversation_history |-> ref1 ]
        ELSE [ heap |-> h1,
               conversations |-> [c \in (DOMAIN convs) \cup {cid} |->
                                    IF c = cid THEN ref0 ELSE convs[c]],
               conversation_history |-> ref0 ]

\* The append with the trimmed list kept by the request only: the store is
\* left with the untrimmed list.
append_user_trim_not_stored(convs, h, cid, entry) ==
    LET known == cid \in DOMAIN convs
        ref0  == IF known THEN convs[cid] ELSE NewRef(h)
        list1 == Append(IF known THEN h[ref0] ELSE <<>>, entry)
        h1    == [r \in (DOMAIN h) \cup {ref0} |-> IF r = ref0 THEN list1 ELSE h[r]]
        convs1 == [c \in (DOMAIN convs) \cup {cid} |-> IF c = cid THEN ref0 ELSE convs[c]]
    IN  IF Len(list1) > 6
        THEN LET ref1 == NewRef(h1)
             IN  [ heap |-> [r \in (DOMAIN h1) \cup {ref1} |->
                                IF r = ref1 THEN LastN(list1, 6) ELSE h1[r]],
                   conversations |-> convs1,
                   conversation_history |-> ref1 ]
        ELSE [ heap |-> h1, conversations |-> convs1, conversation_history |-> ref0 ]

\* conversation_history.append(...) at main.py:80 and the trim at main.py:87-89
append_user(convs, h, cid, entry) ==
    LET known == cid \in DOMAIN convs
        ref0  == IF known THEN convs[cid] ELSE NewRef(h)
        list1 == Append(IF known THEN h[ref0] ELSE <<>>, entry)
        h1    == [r \in (DOMAIN h) \cup {ref0} |-> IF r = ref0 THEN list1 ELSE h[r]]
    IN  IF Len(list1) > 6
        THEN LET ref1 == NewRef(h1)
             IN  [ heap |-> [r \in (DOMAIN h1) \cup {ref1} |->
                                IF r = ref1 THEN LastN(list1, 6) ELSE h1[r]],
                   conversations |-> [c \in (DOMAIN convs) \cup {cid} |->
                                        IF c = cid THEN ref1 ELSE convs[c]],
                   conversation_history |-> ref1 ]
        ELSE [ heap |-> h1,
               conversations |-> [c \in (DOMAIN convs) \cup {cid} |->
                                    IF c = cid THEN ref0 ELSE convs[c]],
               conversation_history |-> ref0 ]

\* The record of appends: entry joins what was ever appended for cid.
Logged(log, cid, entry) ==
    [c \in (DOMAIN log) \cup {cid} |->
        IF c = cid THEN Append(IF cid \in DOMAIN log THEN log[cid] ELSE <<>>, entry)
        ELSE log[c]]

\* What datetime.now() can read next: the instant of the latest reading once
\* more, or a later one.
ClockReads == {clock, clock + 1} \ {0}

\* Python's truth value of an Optional[str]
Truthy(v) == v.pytype = "str" /\ v.value # ""

\* main.py:69-92: up to the await of sentiment_analyzer.analyze, with the
\* clock reading timestamp
ChatBeginStep(p, cid_in, message, timestamp) ==
    /\ pc[p] = "idle"
    /\ MayRun(p)
    /\ timestamp \in ClockReads
    /\ started' = started + 1
    /\ LET conversation_id == IF Truthy(cid_in) THEN cid_in.value
                              ELSE generated_id(timestamp)
           entry == [role |-> "user", content |-> message, timestamp |-> timestamp]
           st == append_user(conversations, heap, conversation_id, entry)
           r  == [NoReq EXCEPT !.conversation_id = conversation_id,
                               !.message = message,
                               !.timestamp = timestamp,
                               !.conversation_history = st.conversation_history]
       IN  /\ clock' = timestamp
           /\ conversations' = st.conversations
           /\ req' = [req EXCEPT ![p] = r]
           /\ heap' = Collect(st.heap, conversations', req')
    /\ pc' = [pc EXCEPT ![p] = "sentiment"]
    /\ http' = NoValue
    /\ UNCHANGED <<env, frontend, sentiment_analyzer, llm_client, nlpCall, llmCall, crisisCall, safetyCall>>

\* The branch with the reply chain called before the crisis flag is looked at.
chat_branch_reply_first(r, sentiment, crisis_detected, history) ==
    LET called == [r EXCEPT !.sentiment = sentiment,
                            !.recent_messages = LastN(history, 3),
                            !.gen_calls = r.gen_calls + 1]
    IN  IF crisis_detected
        THEN [ pc |-> "done",
               locals |-> [called EXCEPT !.logged =
                              log_conversation(r.conversation_id, sentiment, TRUE, "high"),
                                         !.response =
                              [ response        |-> get_crisis_response,
                                sentiment       |-> sentiment,
                                crisis_detected |-> TRUE,
                                timestamp       |-> r.timestamp,
                                conversation_id |-> r.conversation_id,
                                resources       |-> crisis_resources ]] ]
        ELSE [ pc |-> "generate", locals |-> called ]

\* The branch with a crisis overridden by a positive sentiment.
chat_branch_sentiment_first(r, sentiment, crisis_detected, history) ==
    IF crisis_detected /\ Get(sentiment, "label", "neutral") # "positive"
    THEN [ pc |-> "done",
           locals |-> [r EXCEPT !.sentiment = sentiment,
                                !.logged =
                                    log_conversation(r.conversation_id, sentiment, TRUE, "high"),
                                !.response =
                                    [ response        |-> get_crisis_response,
                                      sentiment       |-> sentiment,
                                      crisis_detected |-> TRUE,
                                      timestamp       |-> r.timestamp,
                                      conversation_id |-> r.conversation_id,
                                      resources       |-> crisis_resources ]] ]
    ELSE [ pc |-> "generate",
           locals |-> [r EXCEPT !.sentiment = sentiment,
                                !.recent_messages = LastN(history, 3),
                                !.gen_calls = r.gen_calls + 1] ]

\* main.py:97-131: the crisis branch returns at once; the normal branch takes
\* the last three entries of its history and calls llm_client.generate_response
chat_branch(r, sentiment, crisis_detected, history) ==
    IF crisis_detected
    THEN [ pc |-> "done",
           locals |-> [r EXCEPT !.sentiment = sentiment,
                                !.logged =
                                    log_conversation(r.conversation_id, sentiment, TRUE, "high"),
                                !.response =
                                    [ response        |-> get_crisis_response,
                                      sentiment       |-> sentiment,
                                      crisis_detected |-> TRUE,
                                      timestamp       |-> r.timestamp,
                                      conversation_id |-> r.conversation_id,
                                      resources       |-> crisis_resources ]] ]
    ELSE [ pc |-> "generate",
           locals |-> [r EXCEPT !.sentiment = sentiment,
                                !.recent_messages = LastN(history, 3),
                                !.gen_calls = r.gen_calls + 1] ]

\* The same step with the crisis text appended to the history as a reply.
SentimentReturnCrisisStored(p, googleAnswer, hfAnswer) ==
    /\ pc[p] = "sentiment"
    /\ MayRun(p)
    /\ LET r == req[p]
           sentiment == analyze(sentiment_analyzer, r.message, googleAnswer, hfAnswer).res
           crisis_detected == detect_crisis(r.message)
           branch == chat_branch(r, sentiment, crisis_detected,
                                 heap[r.conversation_history])
           entry == [role |-> "assistant", content |-> get_crisis_response,
                     timestamp |-> r.timestamp]
       IN  /\ req' = [req EXCEPT ![p] = branch.locals]
           /\ pc' = [pc EXCEPT ![p] = branch.pc]
           /\ heap' = IF crisis_detected
                      THEN [heap EXCEPT ![r.conversation_history] = Append(@, entry)]
                      ELSE heap
    /\ http' = NoValue
    /\ UNCHANGED <<env, frontend, sentiment_analyzer, llm_client, nlpCall, llmCall, crisisCall, safetyCall,
                   conversations, clock, started, appended>>

\* main.py:92-131: analyze returns, the crisis check, and either the crisis
\* response or the call of llm_client.generate_response
SentimentReturn(p, googleAnswer, hfAnswer) ==
    /\ pc[p] = "sentiment"
    /\ MayRun(p)
    /\ LET r == req[p]
           sentiment == analyze(sentiment_analyzer, r.message, googleAnswer, hfAnswer).res
           crisis_detected == detect_crisis(r.message)
           branch == chat_branch(r, sentiment, crisis_detected,
                                 heap[r.conversation_history])
       IN  /\ req' = [req EXCEPT ![p] = branch.locals]
           /\ pc' = [pc EXCEPT ![p] = branch.pc]
    /\ http' = NoValue
    /\ UNCHANGED <<env, frontend, sentiment_analyzer, llm_client, nlpCall, llmCall, crisisCall, safetyCall,
                   conversations, heap, clock, started, appended>>

ChatBegin(p, cid_in, message, timestamp) ==
    /\ ChatBeginStep(p, cid_in, message, timestamp)
    /\ UNCHANGED appended

\* The same step with the request's history stored again under its id.
ReplyReturnStepRestores(p, answers) ==
    /\ pc[p] = "generate"
    /\ MayRun(p)
    /\ LET r == req[p]
           response_text == generate_response(llm_client, r.message, r.recent_messages,
                                              r.sentiment, answers).text
           entry == [role |-> "assistant", content |-> response_text,
                     timestamp |-> r.timestamp]
       IN  /\ heap' = [heap EXCEPT ![r.conversation_history] = Append(@, entry)]
           /\ conversations' = [c \in (DOMAIN conversations) \cup {r.conversation_id} |->
                                   IF c = r.conversation_id THEN r.conversation_history
                                   ELSE conversations[c]]
           /\ req' = [req EXCEPT ![p] =
                     [r EXCEPT !.logged =
                                   log_conversation(r.conversation_id, r.sentiment, FALSE,
                                                    normal_severity(r.sentiment)),
                               !.response =
                                   [ response        |-> response_text,
                                     sentiment       |-> r.sentiment,
                                     crisis_detected |-> FALSE,
                                     timestamp       |-> r.timestamp,
                                     conversation_id |-> r.conversation_id,
                                     resources       |-> general_resources ]]]
    /\ pc' = [pc EXCEPT ![p] = "done"]
    /\ http' = NoValue
    /\ UNCHANGED <<env, frontend, sentiment_analyzer, llm_client, nlpCall, llmCall, crisisCall, safetyCall,
                   clock, started>>

\* main.py:127-166: generate_response returns, the reply is appended and returned
ReplyReturnStep(p, answers) ==
    /\ pc[p] = "generate"
    /\ MayRun(p)
    /\ LET r == req[p]
           response_text == generate_response(llm_client, r.message, r.recent_messages,
                                              r.sentiment, answers).text
           entry == [role |-> "assistant", content |-> response_text,
                     timestamp |-> r.timestamp]
       IN  /\ heap' = [heap EXCEPT ![r.conversation_history] = Append(@, entry)]
           /\ req' = [req EXCEPT ![p] =
                     [r EXCEPT !.logged =
                                   log_conversation(r.conversation_id, r.sentiment, FALSE,
                                                    normal_severity(r.sentiment)),
                               !.response =
                                   [ response        |-> response_text,
                                     sentiment       |-> r.sentiment,
                                     crisis_detected |-> FALSE,
                                     timestamp       |-> r.timestamp,
                                     conversation_id |-> r.conversation_id,
                                     resources       |-> general_resources ]]]
    /\ pc' = [pc EXCEPT ![p] = "done"]
    /\ http' = NoValue
    /\ UNCHANGED <<env, frontend, sentiment_analyzer, llm_client, nlpCall, llmCall, crisisCall, safetyCall,
                   conversations, clock, started>>

ReplyReturn(p, answers) ==
    /\ ReplyReturnStep(p, answers)
    /\ UNCHANGED appended

\* main.py:168-170: a stage call raises an exception that reaches the except
\* clause of chat (the sentiment analyzer, the crisis detector or the reply
\* chain failing in a way they do not catch themselves, as the API tests make
\* them do): the request is answered with HTTP 500.  The user entry appended at
\* the start of the request stays in the window.  When the crisis detector
\* (main.py:95) is the stage that fails, analyze has returned and line 92 has
\* bound the local sentiment.
ChatFault(p, stage, googleAnswer, hfAnswer) ==
    /\ MayRun(p)
    /\ \/ stage = "sentiment" /\ pc[p] = "sentiment"
       \/ stage = "crisis" /\ pc[p] = "sentiment"
       \/ stage = "reply" /\ pc[p] = "generate"
    /\ LET r == req[p]
           sentiment == IF stage = "crisis"
                        THEN analyze(sentiment_analyzer, r.message,
                                     googleAnswer, hfAnswer).res
                        ELSE r.sentiment
       IN  req' = [req EXCEPT ![p] = [r EXCEPT !.sentiment = sentiment,
                                               !.response = internal_server_error]]
    /\ pc' = [pc EXCEPT ![p] = "done"]
    /\ http' = NoValue
    /\ UNCHANGED <<env, frontend, sentiment_analyzer, llm_client, nlpCall, llmCall, crisisCall, safetyCall,
                   conversations, heap, clock, started, appended>>

\* The ChatResponse has been sent: the coroutine and its locals are gone.
Respond(p) ==
    /\ pc[p] = "done"
    /\ pc' = [pc EXCEPT ![p] = "idle"]
    /\ req' = [req EXCEPT ![p] = NoReq]
    /\ heap' = Collect(heap, conversations, req')
    /\ http' = NoValue
    /\ UNCHANGED <<env, frontend, sentiment_analyzer, llm_client, nlpCall, llmCall, crisisCall, safetyCall,
                   conversations, clock, started, appended>>

\* The read with a missing conversation created empty instead of reported.
GetConversationCreates(conversation_id) ==
    /\ LoopFree
    /\ IF conversation_id \notin DOMAIN conversations
       THEN LET ref == NewRef(heap)
            IN  /\ heap' = [r \in (DOMAIN heap) \cup {ref} |->
                               IF r = ref THEN <<>> ELSE heap[r]]
                /\ conversations' = [c \in (DOMAIN conversations) \cup {conversation_id} |->
                                        IF c = conversation_id THEN ref
                                        ELSE conversations[c]]
                /\ http' = [ op |-> "get", conversation_id |-> conversation_id,
                             status |-> 200, history |-> <<>> ]
       ELSE /\ http' = [ op |-> "get", conversation_id |-> conversation_id,
                         status |-> 200, history |-> Window(conversation_id) ]
            /\ UNCHANGED <<conversations, heap>>
    /\ UNCHANGED <<env, frontend, sentiment_analyzer, llm_client, nlpCall, llmCall, crisisCall, safetyCall,
                   pc, req, clock, started, appended>>

\* main.py:172-181
GetConversation(conversation_id) ==
    /\ LoopFree
    /\ http' = IF conversation_id \notin DOMAIN conversations
               THEN [ op |-> "get", conversation_id |-> conversation_id,
                      status |-> 404, history |-> <<>> ]
               ELSE [ op |-> "get", conversation_id |-> conversation_id,
                      status |-> 200, history |-> Window(conversation_id) ]
    /\ UNCHANGED <<env, frontend, sentiment_analyzer, llm_client, nlpCall, llmCall, crisisCall, safetyCall,
                   conversations, heap, pc, req, clock, started, appended>>

\* The clear emptying the whole store (conversations.clear()).
ClearConversationAll(conversation_id) ==
    /\ LoopFree
    /\ IF conversation_id \in DOMAIN conversations
       THEN /\ conversations' = << >>
            /\ heap' = Collect(heap, conversations', req)
            /\ http' = [ op |-> "clear", conversation_id |-> conversation_id,
                         status |-> 200, history |-> <<>> ]
       ELSE /\ http' = [ op |-> "clear", conversation_id |-> conversation_id,
                         status |-> 404, history |-> <<>> ]
            /\ UNCHANGED <<conversations, heap>>
    /\ UNCHANGED <<env, frontend, sentiment_analyzer, llm_client, nlpCall, llmCall, crisisCall, safetyCall,
                   pc, req, clock, started, appended>>

\* main.py:183-190
ClearConversation(conversation_id) ==
    /\ LoopFree
    /\ IF conversation_id \in DOMAIN conversations
       THEN /\ conversations' = [c \in (DOMAIN conversations) \ {conversation_id} |->
                                    conversations[c]]
            /\ heap' = Collect(heap, conversations', req)
            /\ http' = [ op |-> "clear", conversation_id |-> conversation_id,
                         status |-> 200, history |-> <<>> ]
       ELSE /\ http' = [ op |-> "clear", conversation_id |-> conversation_id,
                         status |-> 404, history |-> <<>> ]
            /\ UNCHANGED <<conversations, heap>>
    /\ UNCHANGED <<env, frontend, sentiment_analyzer, llm_client, nlpCall, llmCall, crisisCall, safetyCall,
                   pc, req, clock, started, appended>>

\* The same two steps, with the record of appends kept.
LoggedChatBegin(p, cid_in, message, timestamp) ==
    /\ ChatBeginStep(p, cid_in, message, timestamp)
    /\ appended' = Logged(appended, req'[p].conversation_id,
                          [role |-> "user", content |-> message, timestamp |-> clock'])

LoggedReplyReturn(p, answers) ==
    /\ ReplyReturnStep(p, answers)
    /\ LET list == heap'[req[p].conversation_history]
       IN  appended' = Logged(appended, req[p].conversation_id, list[Len(list)])

(***************************************************************************)
(* The service: concurrent chat requests and clears                        *)
(***************************************************************************)
EmptyStore ==
    /\ conversations = << >>
    /\ heap = << >>
    /\ pc = [p \in Slots |-> "idle"]
    /\ req = [p \in Slots |-> NoReq]
    /\ clock = 0
    /\ started = 0
    /\ appended = << >>
    /\ http = NoValue

Init == /\ \E e \in Deployments : InitOf(e)
        /\ EmptyStore

\* Coroutine frames are anonymous: a new request takes the first free one.
FirstIdle(p) == /\ pc[p] = "idle"
                /\ \A q \in Slots : pc[q] = "idle" => p <= q

AnswerSets == [ openai    : ChatProviderAnswers,
                anthropic : ChatProviderAnswers,
                gemini    : ChatProviderAnswers ]

Next ==
    \/ /\ started < MaxRequests
       /\ \E p \in Slots, cid \in RequestIds, m \in ChatMessages, timestamp \in ClockReads :
             FirstIdle(p) /\ ChatBegin(p, cid, m, timestamp)
    \/ \E p \in Slots, g \in ChatGoogleAnswers, h \in ChatHfAnswers :
          SentimentReturn(p, g, h)
    \/ \E p \in Slots, a \in AnswerSets : ReplyReturn(p, a)
    \/ \E p \in Slots : Respond(p)
    \/ \E cid \in ClientIds : ClearConversation(cid)

Spec == Init /\ [][Next]_vars

(***************************************************************************)
(* The service with its three conversation operations: chat requests,      *)
(* reads and clears                                                        *)
(***************************************************************************)
NextLife ==
    \/ Next
    \/ \E cid \in ClientIds : GetConversation(cid)

SpecLife == Init /\ [][NextLife]_vars

(***************************************************************************)
(* The service used by one client at a time on one conversation id: a new  *)
(* request starts when the previous one has been answered, at a later      *)
(* instant of the clock.                                                   *)
(***************************************************************************)
SeqId == "a"

InitSeq == /\ \E e \in {NoProviders, AllProviders} : InitOf(e)
           /\ EmptyStore

NextSeq ==
    \/ /\ started < MaxSeqRequests
       /\ \A q \in Slots : pc[q] = "idle"
       /\ \E p \in Slots, m \in ChatMessages, timestamp \in ClockReads \ {clock} :
             FirstIdle(p) /\ LoggedChatBegin(p, PyStr(SeqId), m, timestamp)
    \/ \E p \in Slots, g \in ChatGoogleAnswers, h \in ChatHfAnswers :
          SentimentReturn(p, g, h)
    \/ \E p \in Slots, a \in AnswerSets : LoggedReplyReturn(p, a)
    \/ \E p \in Slots : Respond(p)

SpecSeq == InitSeq /\ [][NextSeq]_vars

(***************************************************************************)
(* The sentiment chain on its own: every environment, text and answer      *)
(***************************************************************************)
InitNlp == /\ \E e \in Envs : ~e.openai /\ ~e.gemini /\ ~e.anthropic /\ InitOf(e)
           /\ EmptyStore

NextNlp == \E text \in Texts, g \in GoogleAnswers, h \in HfAnswers : Analyze(text, g, h)

SpecNlp == InitNlp /\ [][NextNlp]_vars

(***************************************************************************)
(* The reply chain on its own: every set of clients, sentiment and answer  *)
(***************************************************************************)
\* The sentiment dicts handed to generate_response: what the chain returns,
\* what the tests pass, and dicts with an unknown or a missing label.
LlmSentiments ==
    { basic_sentiment(t).res : t \in {"I'm feeling great today!", "I hate this terrible awful day", ""} }
    \cup { [provider |-> "google", score |-> -60, magnitude |-> 40,
            label |-> "negative", confidence |-> 40],
           [label |-> "neutral", score |-> 0, confidence |-> 50],
           [label |-> "mixed", score |-> 0, confidence |-> 50],
           [score |-> -70] }

LlmHistories ==
    { <<>>,
      << [role |-> "user", content |-> "I'm feeling sad"],
         [role |-> "assistant", content |-> "I understand you're feeling sad"] >> }

Generate(current_message, conversation_history, sentiment, answers) ==
    /\ ~llmCall.called
    /\ llmCall' = [ called    |-> TRUE,
                    sentiment |-> sentiment,
                    history   |-> conversation_history,
                    answers   |-> answers,
                    out       |-> generate_response(llm_client, current_message,
                                                    conversation_history, sentiment,
                                                    answers) ]
    /\ UNCHANGED <<env, frontend, sentiment_analyzer, llm_client, nlpCall, crisisCall, safetyCall,
                   conversations, heap, pc, req, clock, started, appended, http>>

InitLlm == /\ \E e \in Envs : ~e.google_key /\ ~e.google_ok /\ ~e.hf_ok /\ InitOf(e)
           /\ EmptyStore

NextLlm == \E s \in LlmSentiments, hist \in LlmHistories,
              a \in [openai : ProviderAnswers, anthropic : ProviderAnswers,
                     gemini : ProviderAnswers] :
              Generate("I need help", hist, s, a)

SpecLlm == InitLlm /\ [][NextLlm]_vars

(***************************************************************************)
(* The triage of single requests, one at a time on one conversation id,    *)
(* with the database logger switched on or off, every answer of the Google *)
(* provider, and stage calls that raise into chat                          *)
(***************************************************************************)
MaxTriageRequests == 2  \* chat requests started in one run of the triage

TriageMessages == ChatMessages \cup {"I hate this terrible awful day"}

Stages == {"sentiment", "crisis", "reply"}

\* The environment e with ENABLE_LOGGING=true.
WithLogging(e) ==
    [k \in (DOMAIN e) \cup {"enable_logging"} |->
        IF k = "enable_logging" THEN TRUE ELSE e[k]]

TriageDeployments ==
    { NoProviders,
      WithLogging(NoProviders),
      WithLogging([NoProviders EXCEPT !.google_key = TRUE, !.google_ok = TRUE]),
      WithLogging([NoProviders EXCEPT !.anthropic = TRUE]) }

\* Every answer of the one generation provider these deployments configure.
TriageAnswerSets == [ openai    : {Raise},
                      anthropic : ProviderAnswers,
                      gemini    : {Raise} ]

InitTriage == /\ \E e \in TriageDeployments : InitOf(e)
              /\ EmptyStore

NextTriage ==
    \/ /\ started < MaxTriageRequests
       /\ \A q \in Slots : pc[q] = "idle"
       /\ \E p \in Slots, m \in TriageMessages, timestamp \in ClockReads :
             FirstIdle(p) /\ ChatBegin(p, PyStr(SeqId), m, timestamp)
    \/ \E p \in Slots, g \in GoogleAnswers, h \in ChatHfAnswers :
          SentimentReturn(p, g, h)
    \/ \E p \in Slots, a \in TriageAnswerSets : ReplyReturn(p, a)
    \/ \E p \in Slots, stage \in Stages, g \in GoogleAnswers, h \in ChatHfAnswers :
          ChatFault(p, stage, g, h)
    \/ \E p \in Slots : Respond(p)

SpecTriage == InitTriage /\ [][NextTriage]_vars

(***************************************************************************)
(* The pure functions on their own: _score_to_label, _basic_sentiment and  *)
(* detect_crisis called directly, any number of times                      *)
(***************************************************************************)
LabelScores == -120..120

ScoreToLabel(score, excess) ==
    /\ nlpCall' = [ called |-> TRUE,
                    fn     |-> "_score_to_label",
                    score  |-> score,
                    excess |-> excess,
                    out    |-> score_to_label(score, excess) ]
    /\ UNCHANGED <<env, frontend, sentiment_analyzer, llm_client, llmCall, crisisCall, safetyCall,
                   conversations, heap, pc, req, clock, started, appended, http>>

BasicSentiment(text) ==
    /\ nlpCall' = [ called |-> TRUE,
                    fn     |-> "_basic_sentiment",
                    text   |-> text,
                    out    |-> basic_sentiment(text).res ]
    /\ UNCHANGED <<env, frontend, sentiment_analyzer, llm_client, llmCall, crisisCall, safetyCall,
                   conversations, heap, pc, req, clock, started, appended, http>>

DetectCrisis(arg) ==
    /\ crisisCall' = [ called |-> TRUE,
                       arg    |-> arg,
                       out    |-> detect_crisis_call(arg) ]
    /\ UNCHANGED <<env, frontend, sentiment_analyzer, llm_client, nlpCall, llmCall, safetyCall,
                   conversations, heap, pc, req, clock, started, appended, http>>

ValidateMessageSafety(message) ==
    /\ safetyCall' = [ called  |-> TRUE,
                       message |-> message,
                       out     |-> validate_message_safety(message) ]
    /\ crisisCall' = [ called |-> TRUE,
                       arg    |-> PyStr(message),
                       out    |-> detect_crisis_call(PyStr(message)) ]
    /\ UNCHANGED <<env, frontend, sentiment_analyzer, llm_client, nlpCall, llmCall,
                   conversations, heap, pc, req, clock, started, appended, http>>

InitFn == /\ InitOf(NoProviders)
          /\ EmptyStore

NextFn ==
    \/ \E score \in LabelScores, excess \in {-1, 0, 1} : ScoreToLabel(score, excess)
    \/ \E text \in Texts \cup MoreTexts : BasicSentiment(text)
    \/ \E arg \in {PyStr(t) : t \in Texts \cup MoreTexts} \cup Malformed : DetectCrisis(arg)

SpecFn == InitFn /\ [][NextFn]_vars

(***************************************************************************)
(* validate_message_safety and detect_crisis called directly               *)
(***************************************************************************)
InitSafety == /\ InitOf(NoProviders)
              /\ EmptyStore

NextSafety ==
    \/ \E message \in Texts \cup SafetyTexts : ValidateMessageSafety(message)
    \/ \E arg \in {PyStr(t) : t \in Texts \cup SafetyTexts} \cup Malformed : DetectCrisis(arg)

SpecSafety == InitSafety /\ [][NextSafety]_vars

(***************************************************************************)
(* Two chat requests racing on one conversation id after a run of          *)
(* requests handled one after the other has filled its window              *)
(***************************************************************************)
RaceWarmUp == 3                       \* requests handled one at a time first
MaxRaceRequests == RaceWarmUp + 2     \* chat requests started in one run

InitRace == /\ \E e \in {AllProviders, [NoProviders EXCEPT !.hf_ok = TRUE]} : InitOf(e)
            /\ EmptyStore

NextRace ==
    \/ /\ started < MaxRaceRequests
       /\ started < RaceWarmUp => \A q \in Slots : pc[q] = "idle"
       /\ \E p \in Slots, m \in ChatMessages, timestamp \in ClockReads \ {clock} :
             FirstIdle(p) /\ LoggedChatBegin(p, PyStr(SeqId), m, timestamp)
    \/ \E p \in Slots, g \in ChatGoogleAnswers, h \in ChatHfAnswers :
          SentimentReturn(p, g, h)
    \/ \E p \in Slots, a \in AnswerSets : LoggedReplyReturn(p, a)
    \/ \E p \in Slots : Respond(p)

SpecRace == InitRace /\ [][NextRace]_vars

(***************************************************************************)
(* The service with the scheduling the event loop guarantees: a coroutine  *)
(* that is not waiting for a provider goes on running, and a finished      *)
(* request is answered.  Nothing makes a provider answer.                  *)
(***************************************************************************)
\* The steps the event loop takes by itself.
LoopStep ==
    \E p \in Slots :
        \/ /\ ~Suspended(p)
           /\ \/ \E g \in ChatGoogleAnswers, h \in ChatHfAnswers : SentimentReturn(p, g, h)
              \/ \E a \in AnswerSets : ReplyReturn(p, a)
        \/ Respond(p)

SpecLoop == Init /\ [][Next]_vars /\ WF_vars(LoopStep)

(***************************************************************************)
(* Total provider outage: whatever is configured, every call of a          *)
(* sentiment provider and of a generation provider fails                   *)
(***************************************************************************)
MaxOutageRequests == 2  \* chat requests started in one run of the outage

OutageMessages == TriageMessages \cup {"Can you help me with anxiety?"}

AllFail == [openai |-> Raise, anthropic |-> Raise, gemini |-> Raise]

InitOutage == /\ \E e \in Envs : InitOf(e)
              /\ EmptyStore

NextOutage ==
    \/ /\ started < MaxOutageRequests
       /\ \A q \in Slots : pc[q] = "idle"
       /\ \E p \in Slots, m \in OutageMessages, timestamp \in ClockReads :
             FirstIdle(p) /\ ChatBegin(p, PyStr(SeqId), m, timestamp)
    \/ \E p \in Slots : SentimentReturn(p, Raise, Raise)
    \/ \E p \in Slots : ReplyReturn(p, AllFail)
    \/ \E p \in Slots : Respond(p)

SpecOutage == InitOutage /\ [][NextOutage]_vars

(***************************************************************************)
(* The frontend's API client: health checks and connection validations as  *)
(* time passes                                                             *)
(***************************************************************************)
MaxNow == 31            \* the frontend clock stops here

Delays == {29, 30}      \* seconds that pass in one step of the clock
Latencies == {0, 1}     \* response.elapsed of an answer, in seconds

\* api_client.py:24-28: session s calls health_check; with a check time stored
\* and use_cache the thread reads the clock for the test of lines 28-29,
\* otherwise it goes on to session.get (line 33).
HealthCheck(s, use_cache) ==
    /\ checking[s].at = "idle"
    /\ checking' = [checking EXCEPT ![s] =
          [ at        |-> IF cache_wanted(api_client, use_cache) THEN "test" ELSE "get",
            fn        |-> "health_check",
            use_cache |-> use_cache,
            outcome   |-> "none",
            read      |-> IF cache_wanted(api_client, use_cache) THEN now ELSE NoRead ]]
    /\ UNCHANGED <<env, sentiment_analyzer, llm_client, nlpCall, llmCall, crisisCall,
                   safetyCall, conversations, heap, pc, req, clock, started, appended, http,
                   api_client, now, healthCall>>

\* api_client.py:173-175: session s calls validate_connection, which calls
\* health_check(use_cache=False).
ValidateConnection(s) ==
    /\ checking[s].at = "idle"
    /\ checking' = [checking EXCEPT ![s] =
          [ at        |-> IF cache_wanted(api_client, FALSE) THEN "test" ELSE "get",
            fn        |-> "validate_connection",
            use_cache |-> FALSE,
            outcome   |-> "none",
            read      |-> NoRead ]]
    /\ UNCHANGED <<env, sentiment_analyzer, llm_client, nlpCall, llmCall, crisisCall,
                   safetyCall, conversations, heap, pc, req, clock, started, appended, http,
                   api_client, now, healthCall>>

\* api_client.py:28-29: the thread of session s reads self._last_health_check
\* and self._health_status and compares with the clock reading it holds.
CacheTest(s) ==
    /\ checking[s].at = "test"
    /\ checking' = [checking EXCEPT ![s] =
          [@ EXCEPT !.at = IF cache_fresh(api_client, checking[s].read)
                           THEN "cached" ELSE "get",
                    !.read = NoRead]]
    /\ UNCHANGED <<env, sentiment_analyzer, llm_client, nlpCall, llmCall, crisisCall,
                   safetyCall, conversations, heap, pc, req, clock, started, appended, http,
                   api_client, now, healthCall>>

\* api_client.py:33-41, 45-62: session.get returns or raises in the thread of
\* session s, which stores the status.
GetReturn(s, outcome, took) ==
    /\ checking[s].at = "get"
    /\ api_client' = [api_client EXCEPT !._health_status = health_status(outcome, took)]
    /\ checking' = [checking EXCEPT ![s] = [@ EXCEPT !.at = "stored", !.outcome = outcome]]
    /\ UNCHANGED <<env, sentiment_analyzer, llm_client, nlpCall, llmCall, crisisCall,
                   safetyCall, conversations, heap, pc, req, clock, started, appended, http,
                   now, healthCall>>

\* api_client.py:42, 64: the call time.time() of the assignment
ReadClock(s) ==
    /\ checking[s].at = "stored"
    /\ checking' = [checking EXCEPT ![s] = [@ EXCEPT !.at = "stamping", !.read = now]]
    /\ UNCHANGED <<env, sentiment_analyzer, llm_client, nlpCall, llmCall, crisisCall,
                   safetyCall, conversations, heap, pc, req, clock, started, appended, http,
                   api_client, now, healthCall>>

\* api_client.py:42, 64: self._last_health_check = the reading the thread holds
StampCheck(s) ==
    /\ checking[s].at = "stamping"
    /\ api_client' = [api_client EXCEPT !._last_health_check = checking[s].read]
    /\ checking' = [checking EXCEPT ![s] = [@ EXCEPT !.at = "stamped", !.read = NoRead]]
    /\ UNCHANGED <<env, sentiment_analyzer, llm_client, nlpCall, llmCall, crisisCall,
                   safetyCall, conversations, heap, pc, req, clock, started, appended, http,
                   now, healthCall>>

\* api_client.py:30, 43, 65: return self._health_status, read again from the
\* client; validate_connection returns its backend_connected (line 176).
HealthReturn(s) ==
    /\ checking[s].at \in {"cached", "stamped"}
    /\ LET health == api_client._health_status
       IN  healthCall' = [ called    |-> TRUE,
                           session   |-> s,
                           fn        |-> checking[s].fn,
                           use_cache |-> checking[s].use_cache,
                           contacted |-> checking[s].at = "stamped",
                           outcome   |-> checking[s].outcome,
                           returned  |-> IF checking[s].fn = "validate_connection"
                                         THEN Get(health, "backend_connected", FALSE)
                                         ELSE health ]
    /\ checking' = [checking EXCEPT ![s] = NoCheckCall]
    /\ UNCHANGED <<env, sentiment_analyzer, llm_client, nlpCall, llmCall, crisisCall,
                   safetyCall, conversations, heap, pc, req, clock, started, appended, http,
                   api_client, now>>

\* Time passes.
Tick(delay) ==
    /\ now + delay <= MaxNow
    /\ now' = now + delay
    /\ UNCHANGED <<env, sentiment_analyzer, llm_client, nlpCall, llmCall, crisisCall,
                   safetyCall, conversations, heap, pc, req, clock, started, appended, http,
                   api_client, checking, healthCall>>

InitHealth == /\ InitOf(NoProviders)
              /\ EmptyStore

NextHealth ==
    \/ \E s \in Sessions, use_cache \in BOOLEAN : HealthCheck(s, use_cache)
    \/ \E s \in Sessions : ValidateConnection(s)
    \/ \E s \in Sessions, outcome \in HealthOutcomes, took \in Latencies :
          GetReturn(s, outcome, took)
    \/ \E s \in Sessions : CacheTest(s)
    \/ \E s \in Sessions : ReadClock(s)
    \/ \E s \in Sessions : StampCheck(s)
    \/ \E s \in Sessions : HealthReturn(s)
    \/ \E delay \in Delays : Tick(delay)

SpecHealth == InitHealth /\ [][NextHealth]_vars

(***************************************************************************)
(* Properties                                                              *)
(***************************************************************************)
InFlight(p) == pc[p] # "idle"
Answered(p) == pc[p] = "done"

\* C1 (Spec): a request whose message the crisis detector flags is answered with
\* crisis_detected = true, the fixed crisis text (which names 988 and 911) and a
\* non-empty resource list, and generate_response is never called for it,
\* whatever its sentiment and whatever the conversation held before.
C1_CrisisShortCircuits ==
    \A p \in Slots :
        (InFlight(p) /\ detect_crisis(req[p].message)) =>
            /\ req[p].gen_calls = 0
            /\ pc[p] # "generate"
            /\ Answered(p) =>
                  /\ req[p].response.crisis_detected = TRUE
                  /\ req[p].response.response = get_crisis_response
                  /\ {"988", "911"} \subseteq NumbersIn(req[p].response.response)
                  /\ Len(req[p].response.resources) > 0

\* A crisis request answered with a positive sentiment, on a conversation that
\* already held an exchange.
C1_Witness ==
    \E p \in Slots :
        /\ Answered(p)
        /\ detect_crisis(req[p].message)
        /\ req[p].response.sentiment.label = "positive"
        /\ Len(heap[req[p].conversation_history]) >= 3

\* C2 (SpecSeq): in every reachable state the stored window of every
\* conversation holds at most 6 entries.
C2_WindowAtMostSix ==
    \A cid \in DOMAIN conversations : Len(Window(cid)) <= 6

\* C3 (SpecSeq): with the requests of a conversation id handled one after the
\* other, the stored window is a contiguous suffix of everything ever appended
\* to that conversation, and a user message followed by six later user
\* messages on the same id is no longer in the window.
UserIndices(log) == {i \in DOMAIN log : log[i].role = "user"}

C3_WindowIsSuffixOfAppends ==
    \A cid \in DOMAIN conversations :
        /\ cid \in DOMAIN appended
        /\ IsSuffix(Window(cid), appended[cid])
        /\ \A i \in UserIndices(appended[cid]) :
              Cardinality({j \in UserIndices(appended[cid]) : j > i}) >= 6
                  => i <= Len(appended[cid]) - Len(Window(cid))

\* Seven requests on one id have been answered, the first of them with a reply,
\* and the window has dropped entries.
C3_Witness ==
    /\ \A p \in Slots : pc[p] = "idle"
    /\ SeqId \in DOMAIN conversations
    /\ Cardinality(UserIndices(appended[SeqId])) = 7
    /\ appended[SeqId][2].role = "assistant"
    /\ Len(Window(SeqId)) < Len(appended[SeqId])
    /\ appended[SeqId][1] \notin Range(Window(SeqId))

\* C4 (Spec): the context handed to generate_response is, at the time of the
\* call, the last up-to-3 entries of the stored window of the request's
\* conversation, in the window's order (stated for the calls made while the
\* conversation has a window).
C4_ContextIsWindowSuffix ==
    [][ \A p \in Slots :
          ( /\ pc[p] = "sentiment"
            /\ pc'[p] = "generate"
            /\ req'[p].conversation_id \in DOMAIN conversations' )
          => /\ Len(req'[p].recent_messages) <= 3
             /\ req'[p].recent_messages
                   = LastN(heap'[conversations'[req'[p].conversation_id]], 3) ]_vars

\* C5 (SpecLlm): the reply is the text of the first provider, in the order
\* OpenAI, Anthropic, Gemini, that is configured and whose call succeeds; the
\* canned fallback is returned only when every configured provider has failed.
Configured(name) ==
    CASE name = "openai" -> llm_client.openai_client
      [] name = "anthropic" -> llm_client.anthropic_client
      [] name = "gemini" -> llm_client.gemini_client

Priority == <<"openai", "anthropic", "gemini">>

WouldSucceed(i) ==
    /\ Configured(Priority[i])
    /\ provider_text(llmCall.answers[Priority[i]]) # Raise

C5_FirstSuccessfulProviderReplies ==
    llmCall.called =>
        IF \E i \in 1..3 : WouldSucceed(i)
        THEN LET first == CHOOSE i \in 1..3 :
                              WouldSucceed(i) /\ \A j \in 1..(i - 1) : ~WouldSucceed(j)
             IN  llmCall.out.text = provider_text(llmCall.answers[Priority[first]]).text
        ELSE llmCall.out.text = fallback_response(llmCall.sentiment)

\* C6 (SpecLlm): generate_response never raises and returns a string; when no
\* provider is configured or the provider it attempts fails, the string is the
\* canned template of the sentiment label (negative, positive, neutral; any
\* other or missing label gives the neutral one); the three templates are
\* non-empty and pairwise different.
Attempted ==
    IF llm_client.openai_client THEN "openai"
    ELSE IF llm_client.anthropic_client THEN "anthropic"
    ELSE IF llm_client.gemini_client THEN "gemini"
    ELSE "none"

TemplateFor(sentiment) ==
    IF "label" \in DOMAIN sentiment /\ sentiment.label = "negative"
    THEN "I hear that you're going through a difficult time right now. Your feelings are completely valid. Sometimes when we're struggling, it can help to take slow, deep breaths - in for 4 counts, hold for 4, out for 4. Would you like to talk about what's making you feel this way?"
    ELSE IF "label" \in DOMAIN sentiment /\ sentiment.label = "positive"
    THEN "I'm glad to hear you're feeling positive! It's wonderful that you're taking time to check in with yourself. Maintaining good mental health habits, like the ones that brought you here, is really important. What's been going well for you lately?"
    ELSE "Thank you for sharing with me. I'm here to listen and support you. Sometimes it helps to just talk through what's on your mind. Taking a moment to breathe deeply can also be grounding. What would be most helpful for you right now?"

C6_GenerateNeverRaises ==
    llmCall.called =>
        /\ llmCall.out.raised = FALSE
        /\ llmCall.out.text \in STRING
        /\ ( \/ Attempted = "none"
             \/ provider_text(llmCall.answers[Attempted]) = Raise )
           => llmCall.out.text = TemplateFor(llmCall.sentiment)
        /\ fallback_negative # "" /\ fallback_positive # "" /\ fallback_neutral # ""
        /\ fallback_negative # fallback_positive
        /\ fallback_negative # fallback_neutral
        /\ fallback_positive # fallback_neutral

\* The attempted provider answered with a message without content, for a
\* sentiment dict without a label: the neutral template is returned.
C6_Witness ==
    /\ llmCall.called
    /\ Attempted = "anthropic"
    /\ llmCall.answers.anthropic = [role |-> "assistant"]
    /\ "label" \notin DOMAIN llmCall.sentiment
    /\ llmCall.out.text = fallback_neutral

\* C7 (SpecNlp): the sentiment chain tries its providers one at a time in the
\* order Google, HuggingFace, lexicon and stops at the first that returns a
\* result: every provider tried before the last one failed, nothing is tried
\* after it, and the result's provider field names it.
Rank(name) ==
    CASE name = "google" -> 1
      [] name = "huggingface" -> 2
      [] name = "basic" -> 3

AttemptFailed(name) ==
    CASE name = "google" -> nlpCall.google = Raise
      [] name = "huggingface" -> hf_pipeline_call(sentiment_analyzer, nlpCall.hf) = Raise
      [] name = "basic" -> FALSE

C7_ChainStopsAtFirstSuccess ==
    nlpCall.called =>
        LET tried == nlpCall.out.tried
            n == Len(tried)
        IN  /\ n >= 1
            /\ \A i \in 1..(n - 1) :
                  /\ Rank(tried[i]) < Rank(tried[i + 1])
                  /\ AttemptFailed(tried[i])
            /\ ~AttemptFailed(tried[n])
            /\ nlpCall.out.res.provider = tried[n]
            /\ sentiment_analyzer.google_client => tried[1] = "google"

\* Google answered: it is the only provider tried, although the text has
\* lexicon words and the HuggingFace answer was at hand.
C7_Witness ==
    /\ nlpCall.called
    /\ nlpCall.out.tried = <<"google">>
    /\ nlpCall.out.res.provider = "google"
    /\ nlpCall.hf # Raise
    /\ Substrings(nlpCall.text) # {}

\* C8 (SpecNlp): when Google is configured and its call fails at request time
\* while HuggingFace can score the text (its pipeline can be built in this
\* environment and its call answers), the result is HuggingFace's and not the
\* lexicon's.
C8_GoogleFailureFallsToHuggingFace ==
    ( /\ nlpCall.called
      /\ sentiment_analyzer.google_client
      /\ nlpCall.google = Raise
      /\ env.hf_ok
      /\ nlpCall.hf # Raise )
    => nlpCall.out.res.provider = "huggingface"

\* C9 (SpecNlp): analyze never raises: it returns a dict with the fields
\* provider, score, magnitude, label and confidence, and when every external
\* provider fails (a configured one raises, the second one is not set up) the
\* dict is the lexicon result.
AllExternalFail ==
    /\ sentiment_analyzer.google_client => nlpCall.google = Raise
    /\ hf_pipeline_call(sentiment_analyzer, nlpCall.hf) = Raise

C9_AnalyzeNeverFails ==
    nlpCall.called =>
        /\ nlpCall.out # Raise
        /\ DOMAIN nlpCall.out.res = {"provider", "score", "magnitude", "label", "confidence"}
        /\ AllExternalFail =>
              /\ nlpCall.out.res.provider = "basic"
              /\ nlpCall.out.res = basic_sentiment(nlpCall.text).res

\* Google is set up and raises, HuggingFace was never set up: the lexicon
\* result comes back.
C9_Witness ==
    /\ nlpCall.called
    /\ sentiment_analyzer.google_client
    /\ nlpCall.google = Raise
    /\ ~sentiment_analyzer.hf_pipeline
    /\ nlpCall.out.res.provider = "basic"
    /\ nlpCall.out.res.score = -70

\* C10 (SpecNlp): whichever provider produced a result, its label is positive
\* iff its score is above 0.1, negative iff below -0.1, neutral otherwise.
C10_LabelAgreesWithScore ==
    nlpCall.called =>
        LET r == nlpCall.out.res
            e == score_excess(r)
        IN  /\ r.label = "positive" <=> float_above(r.score, e, 10)
            /\ r.label = "negative" <=> float_below(r.score, e, -10)
            /\ r.label = "neutral" <=> ~( float_above(r.score, e, 10)
                                          \/ float_below(r.score, e, -10) )

\* A Google result exactly on the threshold, labelled neutral.
C10_Witness ==
    /\ nlpCall.called
    /\ nlpCall.out.res.provider = "google"
    /\ nlpCall.out.res.score = 10
    /\ nlpCall.out.res.label = "neutral"

\* C11 (SpecNlp): every result of the sentiment chain has its score in [-1, 1]
\* and its confidence in [0, 1], whatever raw values the external provider
\* answered with (raw scores outside the expected range included).
C11_ScoreAndConfidenceInRange ==
    nlpCall.called =>
        /\ nlpCall.out.res.score >= -100
        /\ nlpCall.out.res.score <= 100
        /\ nlpCall.out.res.confidence >= 0
        /\ nlpCall.out.res.confidence <= 100

\* C12 (SpecFn): _score_to_label maps a score to positive iff it is above 0.1,
\* to negative iff it is below -0.1 and to neutral otherwise; 0.1 and -0.1
\* themselves are neutral.
LabelCall == nlpCall.called /\ nlpCall.fn = "_score_to_label"

C12_ScoreToLabelRule ==
    LabelCall =>
        /\ nlpCall.out = "positive" <=>
              (nlpCall.score > 10 \/ (nlpCall.score = 10 /\ nlpCall.excess = 1))
        /\ nlpCall.out = "negative" <=>
              (nlpCall.score < -10 \/ (nlpCall.score = -10 /\ nlpCall.excess = -1))
        /\ nlpCall.out \in {"positive", "negative", "neutral"}
        /\ (nlpCall.score \in {10, -10} /\ nlpCall.excess = 0) => nlpCall.out = "neutral"

\* The lower boundary score has been labelled.
C12_Witness ==
    /\ LabelCall
    /\ nlpCall.score = -10
    /\ nlpCall.excess = 0
    /\ nlpCall.out = "neutral"

\* C13 (SpecFn): the lexicon scorer depends only on which positive-list and
\* negative-list words occur in the text: more negative than positive words
\* give score -0.7 and label negative, more positive than negative give 0.7
\* and positive, equal numbers (none at all included) give 0.0 and neutral;
\* the confidence is 0.6 and the magnitude is the absolute value of the score.
LexiconCall == nlpCall.called /\ nlpCall.fn = "_basic_sentiment"

PositiveMatches(text) == {w \in positive_words : w \in Substrings(text)}
NegativeMatches(text) == {w \in negative_words : w \in Substrings(text)}

C13_LexiconScorer ==
    LexiconCall =>
        LET np == Cardinality(PositiveMatches(nlpCall.text))
            nn == Cardinality(NegativeMatches(nlpCall.text))
            r  == nlpCall.out
        IN  /\ nn > np => (r.score = -70 /\ r.label = "negative")
            /\ np > nn => (r.score = 70 /\ r.label = "positive")
            /\ np = nn => (r.score = 0 /\ r.label = "neutral")
            /\ r.confidence = 60
            /\ r.magnitude = (IF r.score < 0 THEN 0 - r.score ELSE r.score)
            /\ \A t \in Texts \cup MoreTexts :
                  ( PositiveMatches(t) = PositiveMatches(nlpCall.text)
                    /\ NegativeMatches(t) = NegativeMatches(nlpCall.text) )
                  => basic_sentiment(t).res = r

\* A text with two negative words and one positive word was scored negative.
C13_Witness ==
    /\ LexiconCall
    /\ Cardinality(PositiveMatches(nlpCall.text)) = 1
    /\ Cardinality(NegativeMatches(nlpCall.text)) = 2
    /\ nlpCall.out.score = -70

\* C14 (SpecFn): on a str, detect_crisis returns true exactly when a crisis
\* regex matches the message, or a high-risk phrase is a substring of the
\* lower-cased message, or every token of some word-combination rule is a
\* substring of the lower-cased message; a message with "pain", "can't" and
\* "anymore" is flagged even when no regex and no phrase matches.
StrCall == crisisCall.called /\ crisisCall.arg.pytype = "str"

RegexStage(m) == PatternHits(m) # {}
PhraseStage(m) == high_risk_phrases \cap Substrings(m) # {}
CombinationStage(m) == \E c \in crisis_combinations : c \subseteq Substrings(m)

C14_DetectCrisisStages ==
    StrCall =>
        LET m == crisisCall.arg.value
        IN  /\ crisisCall.out.value
                 <=> (RegexStage(m) \/ PhraseStage(m) \/ CombinationStage(m))
            /\ {"pain", "can't", "anymore"} \subseteq Substrings(m)
                 => crisisCall.out.value

\* A message flagged by the pain / can't / anymore rule alone, its tokens in
\* another order and inside other words.
C14_Witness ==
    /\ StrCall
    /\ crisisCall.arg.value = "Anymore I CAN'T finish this painting"
    /\ ~RegexStage(crisisCall.arg.value)
    /\ ~PhraseStage(crisisCall.arg.value)
    /\ crisisCall.out.value

\* C15 (SpecFn): detect_crisis never raises and returns a boolean for every
\* argument; an argument that is not a str makes a stage fail and gives false,
\* and so does the empty string.
C15_DetectCrisisNeverRaises ==
    crisisCall.called =>
        /\ crisisCall.out.raised = FALSE
        /\ crisisCall.out.value \in BOOLEAN
        /\ crisisCall.arg \in Malformed => crisisCall.out.value = FALSE
        /\ crisisCall.arg = PyStr("") => crisisCall.out.value = FALSE

\* detect_crisis(None) has returned false.
C15_Witness ==
    /\ crisisCall.called
    /\ crisisCall.arg = [pytype |-> "NoneType"]
    /\ crisisCall.out = [raised |-> FALSE, value |-> FALSE]

\* C16 (SpecTriage): the chat operation never reports an error outward: a
\* request is always answered with a chat result, also when its sentiment
\* step, crisis step or reply step fails with an unexpected fault.
IsError(response) == "status" \in DOMAIN response

C16_ChatNeverReportsError ==
    \A p \in Slots : Answered(p) => ~IsError(req[p].response)

\* C19 (SpecTriage): the severity handed to the logger is high whenever the
\* request's message is a crisis, whatever the sentiment score; without a
\* crisis it is medium when the score is below -0.5 and low otherwise, so a
\* score of exactly -0.5 gives low.
C19_SeverityTag ==
    \A p \in Slots :
        req[p].logged # NoValue =>
            LET row == req[p].logged
                crisis == detect_crisis(req[p].message)
                below == float_below(req[p].sentiment.score,
                                     score_excess(req[p].sentiment), -50)
            IN  /\ row.crisis_detected = crisis
                /\ crisis => row.severity = "high"
                /\ (~crisis /\ below) => row.severity = "medium"
                /\ (~crisis /\ ~below) => row.severity = "low"

\* A request without crisis and with a score of exactly -0.5 was logged low.
C19_Witness ==
    \E p \in Slots :
        /\ Answered(p)
        /\ req[p].logged # NoValue
        /\ ~detect_crisis(req[p].message)
        /\ req[p].sentiment.score = -50
        /\ req[p].logged.severity = "low"

\* C17 (SpecSeq): when a request of the normal branch has been answered, with
\* no other request on its conversation id in flight during it, the last two
\* entries of the stored window are its user message and the assistant reply
\* the result carries, and the result has the general resource list and
\* crisis_detected = false.
NormalAnswered(p) ==
    /\ Answered(p)
    /\ ~IsError(req[p].response)
    /\ ~detect_crisis(req[p].message)

C17_NormalBranchStoresExchange ==
    \A p \in Slots :
        NormalAnswered(p) =>
            /\ req[p].conversation_id \in DOMAIN conversations
            /\ LET w == Window(req[p].conversation_id)
                   n == Len(w)
               IN  /\ n >= 2
                   /\ w[n - 1] = [ role      |-> "user",
                                   content   |-> req[p].message,
                                   timestamp |-> req[p].timestamp ]
                   /\ w[n] = [ role      |-> "assistant",
                               content   |-> req[p].response.response,
                               timestamp |-> req[p].timestamp ]
            /\ req[p].response.resources =
                  << "National Alliance on Mental Illness (NAMI): nami.org",
                     "Mental Health America: mhanational.org",
                     "Psychology Today therapist finder" >>
            /\ req[p].response.crisis_detected = FALSE

\* A provider's reply was stored after the user append had trimmed the window.
C17_Witness ==
    \E p \in Slots :
        /\ NormalAnswered(p)
        /\ req[p].response.response = "That sounds really hard."
        /\ Len(appended[SeqId]) > 7
        /\ Len(Window(SeqId)) = 7

\* C18 (SpecSeq): a request of the crisis branch appends no assistant entry:
\* its first step leaves the window as the window before it with the user
\* message appended and the oldest entries evicted, its crisis step and its
\* answer leave every window as it is, and no window ever holds the fixed
\* crisis text as an assistant entry.
WindowOrEmpty(convs, h, cid) == IF cid \in DOMAIN convs THEN h[convs[cid]] ELSE <<>>

C18_CrisisAppendsNoReply ==
    [][ \A p \in Slots :
          /\ ( pc[p] = "idle" /\ pc'[p] = "sentiment" /\ detect_crisis(req'[p].message) )
             => LET cid == req'[p].conversation_id
                    entry == [ role      |-> "user",
                               content   |-> req'[p].message,
                               timestamp |-> req'[p].timestamp ]
                IN  /\ cid \in DOMAIN conversations'
                    /\ WindowOrEmpty(conversations', heap', cid)
                          = LastN(Append(WindowOrEmpty(conversations, heap, cid), entry), 6)
          /\ ( pc[p] \in {"sentiment", "done"} /\ pc'[p] # pc[p]
               /\ detect_crisis(req[p].message) /\ ~IsError(req'[p].response) )
             => /\ conversations' = conversations
                /\ \A cid \in DOMAIN conversations :
                      heap'[conversations[cid]] = heap[conversations[cid]]
          /\ \A cid \in DOMAIN conversations' :
                \A i \in DOMAIN heap'[conversations'[cid]] :
                   LET e == heap'[conversations'[cid]][i]
                   IN  e.role = "assistant" => e.content # get_crisis_response ]_vars

\* A crisis request was answered after its user message had evicted the oldest
\* entry of a full window.
C18_Witness ==
    \E p \in Slots :
        /\ Answered(p)
        /\ detect_crisis(req[p].message)
        /\ req[p].response.crisis_detected = TRUE
        /\ Len(appended[SeqId]) >= 7
        /\ Len(Window(SeqId)) = 6
        /\ Window(SeqId)[6].content = req[p].message

\* C20 (SpecLife): a conversation is in the store from the first chat request
\* for its id until it is cleared.  Only the start of a chat request adds an
\* id, as a fresh window holding just that request's user message; only a
\* clear answered 200 removes one; a read or a clear of an id that is not in
\* the store is answered 404 and adds nothing; right after a successful clear
\* a read or another clear of the same id is answered 404.
Begins(p) == pc[p] = "idle" /\ pc'[p] = "sentiment"

C20_ConversationLifecycle ==
    [][ /\ \A p \in Slots :
              Begins(p) =>
                 /\ req'[p].conversation_id \in DOMAIN conversations'
                 /\ req'[p].conversation_id \notin DOMAIN conversations
                      => heap'[conversations'[req'[p].conversation_id]]
                            = << [ role      |-> "user",
                                   content   |-> req'[p].message,
                                   timestamp |-> req'[p].timestamp ] >>
        /\ \A cid \in (DOMAIN conversations') \ (DOMAIN conversations) :
              \E p \in Slots : Begins(p) /\ req'[p].conversation_id = cid
        /\ \A cid \in (DOMAIN conversations) \ (DOMAIN conversations') :
              /\ http' # NoValue
              /\ http'.op = "clear" /\ http'.conversation_id = cid /\ http'.status = 200
        /\ http' # NoValue =>
              LET cid == http'.conversation_id
              IN  /\ http'.status = 404 <=> cid \notin DOMAIN conversations
                  /\ http'.status = 200 <=> cid \in DOMAIN conversations
                  /\ http'.op = "get" =>
                        /\ conversations' = conversations
                        /\ http'.status = 200 => http'.history = Window(cid)
                  /\ http'.op = "clear" =>
                        /\ cid \notin DOMAIN conversations'
                        /\ \A c \in (DOMAIN conversations) \ {cid} :
                              /\ c \in DOMAIN conversations'
                              /\ heap'[conversations'[c]] = Window(c)
                  /\ ( http # NoValue /\ http.op = "clear" /\ http.status = 200
                       /\ http.conversation_id = cid )
                     => http'.status = 404 ]_vars

\* A conversation recreated after a clear while an earlier request on the id
\* is still in flight: the new window holds the later request's message only,
\* and a read of the id has returned it.
C20_Witness ==
    /\ http # NoValue
    /\ http.op = "get" /\ http.status = 200 /\ http.conversation_id = "a"
    /\ Len(http.history) = 1
    /\ http.history[1].timestamp = 2
    /\ \E p \in Slots : /\ InFlight(p)
                        /\ req[p].conversation_id = "a"
                        /\ req[p].timestamp = 1

\* C21 (SpecRace): when chat requests on one conversation id interleave at
\* the provider calls, every entry either of them appended is in the stored
\* window unless FIFO eviction removed it: what is missing from the window is
\* always older than everything that is in it.
C21_NoEntryLostToConcurrentTrim ==
    \A cid \in DOMAIN conversations :
        \A i, j \in DOMAIN appended[cid] :
            ( i < j /\ appended[cid][i] \in Range(Window(cid)) )
                => appended[cid][j] \in Range(Window(cid))

\* C22 (SpecLife): conversations with different ids are independent.  A step
\* of a chat request, a read or a clear on id A leaves every other id B in the
\* store with its window unchanged; and while a request on B is suspended at a
\* provider call, a request on another id can start and can take each of its
\* steps, and (once no coroutine is in the middle of a step) another id can be
\* read or cleared, without any step of the request on B.
OperatesOn(A) ==
    \/ \E p \in Slots :
          /\ pc'[p] # pc[p]
          /\ (IF pc[p] = "idle" THEN req'[p] ELSE req[p]).conversation_id = A
    \/ /\ pc' = pc
       /\ http' # NoValue
       /\ http'.conversation_id = A

AtProvider(q) == pc[q] \in {"sentiment", "generate"} /\ Suspended(q)

CanProceed(p) ==
    CASE pc[p] = "sentiment" ->
            ENABLED (\E g \in ChatGoogleAnswers, h \in ChatHfAnswers : SentimentReturn(p, g, h))
      [] pc[p] = "generate" -> ENABLED (\E a \in AnswerSets : ReplyReturn(p, a))
      [] pc[p] = "done" -> ENABLED Respond(p)
      [] OTHER -> ENABLED (\E cid \in RequestIds, m \in ChatMessages, timestamp \in ClockReads :
                              ChatBegin(p, cid, m, timestamp))

C22_NoWaitingAcrossIds ==
    \A q \in Slots :
        AtProvider(q) =>
            /\ \A p \in Slots \ {q} :
                  req[p].conversation_id # req[q].conversation_id => CanProceed(p)
            /\ LoopFree =>
                  \A A \in ClientIds \ {req[q].conversation_id} :
                     /\ ENABLED GetConversation(A)
                     /\ ENABLED ClearConversation(A)

C22_IdsAreIndependent ==
    /\ []C22_NoWaitingAcrossIds
    /\ [][ \A A \in ClientIds \cup (DOMAIN conversations) \cup (DOMAIN conversations') :
             OperatesOn(A) =>
                \A B \in (DOMAIN conversations) \ {A} :
                   /\ B \in DOMAIN conversations'
                   /\ heap'[conversations'[B]] = Window(B) ]_vars

\* Conversation "b" holds a complete exchange while a request on "a" is
\* suspended at a provider call, and "a" has just been cleared under it.
C22_Witness ==
    /\ "b" \in DOMAIN conversations
    /\ Len(Window("b")) = 2
    /\ \E q \in Slots : AtProvider(q) /\ req[q].conversation_id = "a"
    /\ http # NoValue
    /\ http.op = "clear" /\ http.conversation_id = "a" /\ http.status = 200

\* C23 (SpecLoop): every chat request eventually gets its result, also when a
\* sentiment or generation provider never answers: the call is given up after
\* a timeout and the chain goes on.
C23_EveryRequestIsAnswered ==
    \A p \in Slots : (pc[p] \in {"sentiment", "generate"}) ~> (pc[p] = "done")

\* C24 (SpecOutage): with every sentiment provider and every generation
\* provider unavailable or failing, a request whose message is not a crisis is
\* answered without error: its sentiment is the lexicon result, its response
\* text is the canned template of the lexicon label, and for a message with
\* more positive than negative lexicon words it is the positive template with
\* crisis_detected = false.
LexiconLabel(text) ==
    IF Cardinality(NegativeMatches(text)) > Cardinality(PositiveMatches(text))
    THEN "negative"
    ELSE IF Cardinality(PositiveMatches(text)) > Cardinality(NegativeMatches(text))
    THEN "positive"
    ELSE "neutral"

C24_OutageStillAnswers ==
    \A p \in Slots :
        ( Answered(p) /\ ~detect_crisis(req[p].message) ) =>
            /\ ~IsError(req[p].response)
            /\ req[p].response.sentiment.provider = "basic"
            /\ req[p].response.sentiment.label = LexiconLabel(req[p].message)
            /\ req[p].response.response = TemplateFor(req[p].response.sentiment)
            /\ req[p].response.crisis_detected = FALSE
            /\ LexiconLabel(req[p].message) = "positive"
                  => req[p].response.response =
                        "I'm glad to hear you're feeling positive! It's wonderful that you're taking time to check in with yourself. Maintaining good mental health habits, like the ones that brought you here, is really important. What's been going well for you lately?"

\* "I'm feeling great today!" answered with the positive template although a
\* Google client and an OpenAI client were configured.
C24_Witness ==
    \E p \in Slots :
        /\ Answered(p)
        /\ sentiment_analyzer.google_client
        /\ llm_client.openai_client
        /\ req[p].message = "I'm feeling great today!"
        /\ req[p].response.response = fallback_positive
        /\ req[p].response.sentiment.label = "positive"

\* C25 (SpecTriage): every request answered without error carries a non-empty
\* response text, in the crisis branch and in the normal branch, whichever
\* provider produced the reply and also when that provider succeeded with an
\* empty or whitespace-only text.
C25_ResponseTextNonEmpty ==
    \A p \in Slots :
        ( Answered(p) /\ ~IsError(req[p].response) ) => req[p].response.response # ""

\* C26 (SpecSafety): validate_message_safety reports crisis_detected true, safe
\* false and risk_level high exactly when the crisis detector flags the
\* message, and false, true and low otherwise.  A message of more than 2000
\* characters has the concern "Message too long", a match of the inappropriate
\* patterns gives that concern once however many patterns match, and neither
\* changes safe or risk_level.
Flagged(message) ==
    RegexStage(message) \/ PhraseStage(message) \/ CombinationStage(message)

Count(seq, x) == Cardinality({i \in DOMAIN seq : seq[i] = x})

C26_ValidateMessageSafety ==
    safetyCall.called =>
        LET m == safetyCall.message
            r == safetyCall.out
        IN  /\ r.crisis_detected = Flagged(m)
            /\ r.safe = ~Flagged(m)
            /\ r.risk_level = IF Flagged(m) THEN "high" ELSE "low"
            /\ Count(r.concerns, "Crisis indicators detected") = IF Flagged(m) THEN 1 ELSE 0
            /\ Count(r.concerns, "Message too long") = IF Len(m) > 2000 THEN 1 ELSE 0
            /\ Count(r.concerns, "Potentially inappropriate content")
                   = IF InappropriateHits(m) # {} THEN 1 ELSE 0
            /\ Len(r.concerns) <= 3

\* A long message that matches both inappropriate patterns and is no crisis:
\* two concerns, still safe and low.
C26_Witness ==
    /\ safetyCall.called
    /\ Len(safetyCall.message) > 2000
    /\ InappropriateHits(safetyCall.message) = {1, 2}
    /\ safetyCall.out = [ safe            |-> TRUE,
                          crisis_detected |-> FALSE,
                          risk_level      |-> "low",
                          concerns        |-> << "Message too long",
                                                 "Potentially inappropriate content" >> ]

\* C27 (Spec): a request has both its sentiment and its crisis flag computed
\* before it branches, and the crisis flag of its result is a function of the
\* message text alone: whatever sentiment providers are configured and whether
\* they succeed or fail, crisis_detected is what the detector says of the
\* message, and when it is true the response text and the resources are the
\* fixed crisis ones; two answered requests with the same message agree on all
\* three.
Branched(p) == pc[p] \in {"generate", "done"}

SameCrisisOutcome(a, b) ==
    /\ a.crisis_detected = b.crisis_detected
    /\ a.crisis_detected => a.response = b.response /\ a.resources = b.resources

C27_CrisisFlagDependsOnMessageOnly ==
    /\ \A p \in Slots :
          Branched(p) =>
             /\ "label" \in DOMAIN req[p].sentiment
             /\ pc[p] = "generate" => ~Flagged(req[p].message)
             /\ Answered(p) =>
                   LET res == req[p].response
                   IN  /\ res.crisis_detected = Flagged(req[p].message)
                       /\ res.sentiment = req[p].sentiment
                       /\ res.crisis_detected =>
                             /\ res.response = get_crisis_response
                             /\ res.resources = crisis_resources
    /\ \A p, q \in Slots :
          ( Answered(p) /\ Answered(q) /\ req[p].message = req[q].message )
             => SameCrisisOutcome(req[p].response, req[q].response)

\* Two answered requests with the same crisis message, one scored positive by
\* the pipeline and one scored by the lexicon after the pipeline failed.
C27_Witness ==
    /\ Answered(1) /\ Answered(2)
    /\ req[1].message = req[2].message
    /\ req[1].response.sentiment.label # req[2].response.sentiment.label
    /\ \E p \in Slots : req[p].response.sentiment.label = "positive"
    /\ req[1].response.crisis_detected /\ req[2].response.crisis_detected
    /\ req[1].response.response = req[2].response.response

\* C28 (SpecTriage): a chat request that ends with an internal error leaves
\* the conversation store as it was before the request: the user entry the
\* request appended (the one carrying its timestamp) is in no stored window,
\* and no window exists for an id that had none before.
FailedRequest(p) == Answered(p) /\ IsError(req[p].response)

C28_FailedRequestLeavesStoreUntouched ==
    \A p \in Slots :
        FailedRequest(p) =>
            LET cid == req[p].conversation_id
            IN  cid \in DOMAIN conversations =>
                    LET window == heap[conversations[cid]]
                    IN  /\ window # <<>>
                        /\ \A i \in DOMAIN window :
                               ~( window[i].role = "user"
                                  /\ window[i].timestamp = req[p].timestamp )

\* C29 (Spec): a clear that completes while a chat request on the same id is
\* suspended at a provider call is final.  The request keeps a history that is
\* no longer the stored one; when it resumes and finishes, its steps leave the
\* store (the ids and the content of every stored window) as it is, and an id
\* that is absent comes back only with the start of a new request on it.
StoredWindows == [c \in DOMAIN conversations |-> heap[conversations[c]]]

Detached(p) ==
    /\ pc[p] \in {"sentiment", "generate"}
    /\ \/ req[p].conversation_id \notin DOMAIN conversations
       \/ conversations[req[p].conversation_id] # req[p].conversation_history

Starts(p, c) ==
    /\ pc[p] = "idle" /\ pc'[p] = "sentiment"
    /\ req'[p].conversation_id = c

ClearIsFinalStep ==
    /\ \A p \in Slots :
          ( Detached(p) /\ pc'[p] # pc[p] ) => StoredWindows' = StoredWindows
    /\ \A c \in DOMAIN conversations' :
          c \notin DOMAIN conversations => \E p \in Slots : Starts(p, c)

C29_ClearIsFinal == [][ClearIsFinalStep]_vars

\* The only request of the run has got its generated reply, the last step was
\* its own, and its id is not in the store: the clear came while it waited.
C29_Witness ==
    /\ started = 1
    /\ \E p \in Slots :
          /\ Answered(p)
          /\ ~req[p].response.crisis_detected
          /\ req[p].conversation_id \in ClientIds
          /\ req[p].conversation_id \notin DOMAIN conversations
          /\ Len(heap[req[p].conversation_history]) = 2
    /\ http = NoValue

\* C30 (SpecHealth): health_check with use_cache true returns the stored status
\* without contacting the backend whenever a check, successful or failed, was
\* recorded less than 30 seconds earlier, and contacts the backend otherwise;
\* a call that contacts the backend replaces the stored status and the stored
\* check time; validate_connection always contacts the backend and returns
\* true only when the check it made succeeded.
Moves(s, from, to) == checking[s].at = from /\ checking'[s].at = to

StoredFor(outcome) ==
    /\ api_client'._health_status.backend_connected = (outcome = "ok")
    /\ api_client'._health_status.status =
          ( CASE outcome = "ok" -> "healthy"
              [] outcome = "ReadTimeout" -> "timeout"
              [] outcome = "HTTPError" -> "error"
              [] OTHER -> "connection_error" )

HealthCheckCacheStep ==
    \A s \in Sessions :
        /\ Moves(s, "idle", "test") \/ Moves(s, "idle", "get") =>
              LET c == checking'[s]
              IN  c.at = "test" <=>
                     /\ c.fn = "health_check"
                     /\ c.use_cache
                     /\ api_client._last_health_check # NoCheck
        /\ Moves(s, "test", "cached") \/ Moves(s, "test", "get") =>
              (checking'[s].at = "cached"
                 <=> checking[s].read - api_client._last_health_check < 30)
        /\ Moves(s, "cached", "idle") =>
              /\ ~healthCall'.contacted
              /\ healthCall'.returned = api_client._health_status
              /\ UNCHANGED api_client
        /\ Moves(s, "get", "stored") => StoredFor(checking'[s].outcome)
        /\ Moves(s, "stamping", "stamped") =>
              api_client'._last_health_check = checking[s].read
        /\ Moves(s, "stamped", "idle") /\ checking[s].fn = "validate_connection" =>
              /\ healthCall'.contacted
              /\ healthCall'.returned => healthCall'.outcome = "ok"

C30_HealthCheckCache == [][HealthCheckCacheStep]_vars

====
